---- MODULE Spec2Model ----
(***************************************************************************)
(* Travel Buddy (src/app.py): the clarifying-question walk and the         *)
(* /api/clarify handler, the keyword intent classifier, the meal-timing    *)
(* rule and the activity-chain builder.                                    *)
(*                                                                         *)
(* Conventions                                                             *)
(*   - a Python str that the code searches or rewrites is a sequence of    *)
(*     one-character strings; a str that is only compared is a TLA+ string *)
(*   - Optional[T] is a sequence of length 0 (None) or 1                   *)
(*   - a dict is a function on its key set                                 *)
(*   - clock values are minutes (hour * 60), confidences are tenths        *)
(***************************************************************************)
EXTENDS Integers, Sequences, FiniteSets, TLC

VARIABLES
    pc,               \* position of the request being handled
    intent,           \* /api/clarify: data['intent']
    answers,          \* /api/clarify: data['answers'] when it is a JSON object
    answersNull,      \* /api/clarify: data['answers'] is JSON null
    contextNull,      \* /api/clarify: data['context'] is JSON null
    next_question,    \* clarify(): local next_question (None before the call)
    response,         \* clarify(): the response sent
    planEntered,      \* clarify(): execute_day_plan / execute_smart_plan was called
    genCalled,        \* clarify(): ask_gemini was called
    user_input,       \* detect_intent: the argument
    detected,         \* detect_intent: the list returned
    current_hour,     \* calculate_food_need: the argument, in minutes of the day
    activity_duration_mins,  \* calculate_food_need: the argument
    food_need,        \* calculate_food_need: the value returned
    primary_intent,   \* build_activity_chain: the argument
    context,          \* build_activity_chain: the argument, a dict
    chain,            \* build_activity_chain: the list returned
    plan_type,        \* resolve_location: data['plan_type']
    destination,      \* resolve_location: data['context']['destination'], None if absent
    coordinates,      \* resolve_location: TRUE when data['context']['coordinates'] is given
    location,         \* resolve_location: data['context']['location'], '' if absent
    HAS_GEOPY,        \* the geopy import succeeded
    geocoded,         \* resolve_location: the outcome of geolocator.reverse
    city,             \* resolve_location: the value returned
    city_from,        \* resolve_location: the return statement taken
    body,             \* /api/assist: request.json is a JSON object or JSON null
    tavily,           \* TRUE when the search client was configured
    weather_key,      \* TRUE when OPENWEATHER_API_KEY is set
    now_hour,         \* datetime.now().hour, in minutes of the day
    primary,          \* assist(): primary_intent, None before detection
    weather,          \* assist(): the value get_weather returned
    search_index,     \* assist(): position of the search loop in the chain
    search_outcomes,  \* assist(): outcome of the search issued for each item so far
    search_results,   \* assist(): the dict search_results
    prompt,           \* assist(): the composed prompt, None before composition
    reply,            \* assist(): what the generation call gave
    gen_calls,        \* assist(): number of ask_gemini calls
    assist_response,  \* assist(): the response sent
    log,              \* assist(): collaborator calls and pipeline steps, in order
    route,            \* the route a request is sent to
    fault,            \* what goes wrong while the request is handled
    user_id_given,    \* /api/preferences: the request names a user
    raised,           \* an exception left the handler's statements
    route_response,   \* what the client receives
    asked,            \* the clarification walk: ids of the questions asked so far
    category,         \* /api/options: data.get('category')
    null_fields,      \* /api/options: the fields of the body that are JSON null
    option_results,   \* get_options(): the list results
    options_response, \* get_options(): the response sent
    USER_PREFERENCES, \* the in-memory preference store, a dict of dicts
    prefs_request,    \* the request that last read or wrote the store
    prefs_response,   \* what that request was answered, or what assist() read
    last_save,        \* the latest successful POST /api/preferences, None before
    thread_pc,        \* save_user_preferences in each thread: read, write, done
    thread_args,      \* the user id and the prefs each thread saves
    thread_snapshot,  \* the record each thread read from the store
    showtime,         \* /api/wizard/itinerary: data.get('showtime')
    wizard_now,       \* datetime.now(): hour and minute
    wizard_food,      \* data.get('food', 'skip')
    wizard_travel,    \* data.get('travel', 'car')
    wizard_steps,     \* the rendered time of each computed step
    total_mins        \* wizard_itinerary(): total_mins, None before it is computed

clarifyVars == <<intent, answers, answersNull, contextNull, next_question,
                 response, planEntered, genCalled>>

intentVars == <<user_input, detected>>

chainVars == <<current_hour, activity_duration_mins, food_need,
               primary_intent, context, chain>>

locationVars == <<plan_type, destination, coordinates, location, HAS_GEOPY,
                  geocoded, city, city_from>>

\* the variables of the operations modelled after the first three groups
assistVars == <<body, tavily, weather_key, now_hour, primary, weather,
                search_index, search_outcomes, search_results,
                prompt, reply, gen_calls, assist_response, log>>

routeVars == <<route, fault, user_id_given, raised, route_response>>

walkVars == <<asked>>

\* the variables of the operations modelled after the route handlers
optionsVars == <<category, null_fields, option_results, options_response>>

prefsVars == <<USER_PREFERENCES, prefs_request, prefs_response, last_save>>

threadVars == <<thread_pc, thread_args, thread_snapshot>>

wizardVars == <<showtime, wizard_now, wizard_food, wizard_travel, wizard_steps,
                total_mins>>

restVars == <<prefsVars, threadVars, wizardVars>>

laterVars == <<walkVars, optionsVars, restVars>>

newVars == <<locationVars, assistVars, routeVars, laterVars>>

vars == <<pc, clarifyVars, intentVars, chainVars, newVars>>

----------------------------------------------------------------------------
(* Bounds *)

\* number of answer keys that are not question ids of the intent
MaxExtra == 1

\* number of fragments an input text is made of
MaxWords == 3

\* the clock values tried are the half hours 0, 0.5, ..., MaxHalfHours / 2
MaxHalfHours == 47

----------------------------------------------------------------------------
(* Python values *)

None == <<>>
Some(x) == <<x>>

\* the None that dict.get returns for a missing key
PyNone == "<None>"

\* dict.get(key)
DictGet(d, key) == IF key \in DOMAIN d THEN d[key] ELSE PyNone

EmptyDict == [k \in {} |-> PyNone]

----------------------------------------------------------------------------
(* Values of the variables of an operation that is not running *)

IdleClarify ==
    /\ intent = "explore"
    /\ answers = EmptyDict
    /\ answersNull = FALSE
    /\ contextNull = FALSE
    /\ next_question = None
    /\ response = [type |-> "none", status |-> 0]
    /\ planEntered = FALSE
    /\ genCalled = FALSE

IdleIntent ==
    /\ user_input = <<>>
    /\ detected = <<>>

IdleChain ==
    /\ current_hour = 0
    /\ activity_duration_mins = 0
    /\ food_need = None
    /\ primary_intent = "explore"
    /\ context = EmptyDict
    /\ chain = <<>>

IdleLocation ==
    /\ plan_type = "NOW"
    /\ destination = None
    /\ coordinates = FALSE
    /\ location = <<>>
    /\ HAS_GEOPY = FALSE
    /\ geocoded = [kind |-> "none", address |-> EmptyDict]
    /\ city = <<>>
    /\ city_from = "none"

\* the locals of assist()
IdleAssistLocals ==
    /\ weather_key = FALSE
    /\ now_hour = 0
    /\ primary = None
    /\ weather = None
    /\ search_index = 1
    /\ search_outcomes = <<>>
    /\ search_results = EmptyDict
    /\ prompt = None
    /\ reply = [kind |-> "none", keys |-> {}, issues |-> FALSE]
    /\ gen_calls = 0
    /\ assist_response = [status |-> 0, kind |-> "none", keys |-> {}]
    /\ log = <<>>

IdleAssist ==
    /\ body = "object"
    /\ tavily = FALSE
    /\ IdleAssistLocals

IdleRoutes ==
    /\ route = "none"
    /\ fault = "none"
    /\ user_id_given = FALSE
    /\ raised = FALSE
    /\ route_response = [status |-> 0, body |-> "none"]

IdleWalk == asked = <<>>

IdleOptions ==
    /\ category = "none"
    /\ null_fields = {}
    /\ option_results = <<>>
    /\ options_response = [status |-> 0, keys |-> {}, options |-> <<>>]

NoPrefsRequest ==
    [op |-> "none", user_id |-> "", fingerprint |-> "", preferences |-> EmptyDict]

NoPrefsResponse == [status |-> 0, user_id |-> "", record |-> EmptyDict]

IdlePrefs ==
    /\ prefs_request = NoPrefsRequest
    /\ prefs_response = NoPrefsResponse
    /\ last_save = None

IdleThreads ==
    /\ thread_pc = EmptyDict
    /\ thread_args = EmptyDict
    /\ thread_snapshot = EmptyDict

IdleWizard ==
    /\ showtime = [hour |-> 7, period |-> "PM"]
    /\ wizard_now = [hour |-> 0, minute |-> 0]
    /\ wizard_food = "skip"
    /\ wizard_travel = "car"
    /\ wizard_steps = <<>>
    /\ total_mins = None

IdleRest == USER_PREFERENCES = EmptyDict /\ IdlePrefs /\ IdleThreads /\ IdleWizard

IdleLater == IdleWalk /\ IdleOptions /\ IdleRest

IdleNew == IdleLocation /\ IdleAssist /\ IdleRoutes /\ IdleLater

----------------------------------------------------------------------------
(* CONVERSATION STATE MACHINE *)

\* depends_on is the list of (dep_id, dep_values) items; <<>> where the
\* question declares none (q.get("depends_on", {}))
CLARIFYING_QUESTIONS ==
    [ movie |-> <<
        [id |-> "food_timing", options |-> <<"before", "after", "snacks", "none">>,
         depends_on |-> <<>>],
        [id |-> "food_type", options |-> <<"quick", "nice", "street", "cafe">>,
         depends_on |-> << <<"food_timing", {"before", "after"}>> >>],
        [id |-> "movie_pref", options |-> <<"new", "top", "comedy", "action", "any">>,
         depends_on |-> <<>>] >>,
      food |-> <<
        [id |-> "food_type", options |-> <<"quick", "proper", "street", "cafe", "pub">>,
         depends_on |-> <<>>],
        [id |-> "budget", options |-> <<"budget", "mid", "premium">>,
         depends_on |-> <<>>] >>,
      bored |-> <<
        [id |-> "time_available", options |-> <<"short", "half", "full">>,
         depends_on |-> <<>>],
        [id |-> "energy_level", options |-> <<"chill", "balanced", "adventure">>,
         depends_on |-> <<>>] >>,
      day_plan |-> <<
        [id |-> "start_time", options |-> <<"morning", "noon", "evening">>,
         depends_on |-> <<>>],
        [id |-> "vibe", options |-> <<"chill", "active", "romantic", "party">>,
         depends_on |-> <<>>],
        [id |-> "must_include", options |-> <<"movie", "meal", "shopping", "outdoors", "cafe">>,
         depends_on |-> <<>>],
        [id |-> "budget", options |-> <<"budget", "mid", "premium">>,
         depends_on |-> <<>>] >>,
      date |-> <<
        [id |-> "date_type", options |-> <<"dinner", "movie_dinner", "full_day", "nightlife">>,
         depends_on |-> <<>>],
        [id |-> "budget", options |-> <<"mid", "premium">>,
         depends_on |-> <<>>] >> ]

\* CLARIFYING_QUESTIONS.get(intent, {}).get("questions", [])
QuestionsOf(i) ==
    IF i \in DOMAIN CLARIFYING_QUESTIONS THEN CLARIFYING_QUESTIONS[i] ELSE <<>>

\* if q["id"] in answers: continue
IsAnsweredNever(q, ans) == FALSE

IsAnswered(q, ans) == q.id \in DOMAIN ans

\* for dep_id, dep_values in depends.items():
\*     if answers.get(dep_id) not in dep_values: skip = True
DependencyBlockedNever(q, ans) == FALSE

DependencyBlocked(q, ans) ==
    \E k \in 1..Len(q.depends_on) :
        DictGet(ans, q.depends_on[k][1]) \notin q.depends_on[k][2]

\* the for loop of get_next_question, from the i-th question on
RECURSIVE NextQuestionFrom(_, _, _)
NextQuestionFrom(questions, ans, i) ==
    IF i > Len(questions) THEN None
    ELSE IF IsAnswered(questions[i], ans) THEN NextQuestionFrom(questions, ans, i + 1)
    ELSE IF DependencyBlocked(questions[i], ans) THEN NextQuestionFrom(questions, ans, i + 1)
    ELSE Some(questions[i])

get_next_question_ignoring_answers(i, ans) ==
    NextQuestionFrom(QuestionsOf(i), EmptyDict, 1)

get_next_question(i, ans) == NextQuestionFrom(QuestionsOf(i), ans, 1)

is_conversation_complete(i, ans) == get_next_question(i, ans) = None

----------------------------------------------------------------------------
(* /api/clarify *)

\* outcomes of the generation collaborator: a JSON object, JSON that is not
\* an object, text that is not JSON, or a failed call
GenOutcomes == {"object", "array", "garbage", "fail"}

ErrorResponse == [type |-> "error", status |-> 500]

\* execute_smart_plan / execute_day_plan: resolve_location(data) reads
\* data.get('context', {}).get(...) and the answers with answers.get(...)
\* before the try block, so a null context or null answers raises; the
\* generation call and the parse sit in a try whose handler returns the
\* fallback plan with the same type
execute_plan(i, ansNull, ctxNull, gen) ==
    IF ctxNull \/ ansNull
    THEN [raised |-> TRUE, genCalled |-> FALSE, response |-> ErrorResponse]
    ELSE [raised |-> FALSE, genCalled |-> TRUE,
          response |-> [type |-> IF i = "day_plan" THEN "day_plan" ELSE "final_plan",
                        fallback |-> gen # "object",
                        status |-> 200]]

\* the body of clarify() after get_next_question returned nq; askMore is
\* the truth value of `if next_question:`
clarify_branch(i, ans, ansNull, ctxNull, gen, nq, askMore) ==
    IF askMore
    THEN [next_question |-> nq, planEntered |-> FALSE, genCalled |-> FALSE,
          response |-> [type |-> "clarification",
                        question |-> nq,
                        intent |-> i,
                        progress |-> [answered |-> Cardinality(DOMAIN ans),
                                      total |-> Len(QuestionsOf(i))],
                        status |-> 200]]
    ELSE LET p == execute_plan(i, ansNull, ctxNull, gen)
         IN [next_question |-> nq, planEntered |-> TRUE,
             genCalled |-> p.genCalled, response |-> p.response]

clarify_always_plan(i, ans, ansNull, ctxNull, gen) ==
    clarify_branch(i, ans, ansNull, ctxNull, gen, get_next_question(i, ans), FALSE)

\* clarify(): `q["id"] in answers` raises TypeError when answers is None and
\* the intent has a question; the except clause answers with the error body
clarify(i, ans, ansNull, ctxNull, gen) ==
    IF ansNull /\ QuestionsOf(i) # <<>>
    THEN [next_question |-> None, planEntered |-> FALSE, genCalled |-> FALSE,
          response |-> ErrorResponse]
    ELSE LET nq == get_next_question(i, ans)
         IN clarify_branch(i, ans, ansNull, ctxNull, gen, nq, nq # None)

----------------------------------------------------------------------------
(* Inputs of /api/clarify *)

ClarifyIntents == {"movie", "food", "bored", "day_plan", "date", "explore"}

AnswerValues == {"before", "after", "none", "any"}

ExtraNames == <<"note", "mood", "party_size">>

ExtraKeys == {ExtraNames[k] : k \in 1..MaxExtra}

AnswerKeys(i) == {QuestionsOf(i)[k].id : k \in 1..Len(QuestionsOf(i))} \cup ExtraKeys

AnswerMaps(i) == UNION {[S -> AnswerValues] : S \in SUBSET AnswerKeys(i)}

NoResponse == [type |-> "none", status |-> 0]

InitClarify ==
    /\ pc = "request"
    /\ intent \in ClarifyIntents
    /\ answersNull \in BOOLEAN
    /\ contextNull \in BOOLEAN
    /\ answers \in (IF answersNull THEN {EmptyDict} ELSE AnswerMaps(intent))
    /\ next_question = None
    /\ response = NoResponse
    /\ planEntered = FALSE
    /\ genCalled = FALSE
    /\ user_input = <<>>
    /\ detected = <<>>
    /\ current_hour = 0
    /\ activity_duration_mins = 0
    /\ food_need = None
    /\ primary_intent = "explore"
    /\ context = EmptyDict
    /\ chain = <<>>
    /\ IdleNew

\* the server handles one POST /api/clarify
Clarify ==
    /\ pc = "request"
    /\ \E gen \in GenOutcomes :
         LET r == clarify(intent, answers, answersNull, contextNull, gen)
         IN /\ next_question' = r.next_question
            /\ response' = r.response
            /\ planEntered' = r.planEntered
            /\ genCalled' = r.genCalled
    /\ pc' = "responded"
    /\ UNCHANGED <<intent, answers, answersNull, contextNull>>
    /\ UNCHANGED <<intentVars, chainVars, newVars>>

\* the client, sole holder of the conversation state, records a value for
\* the question it was asked and posts again
ClientAnswer ==
    /\ pc = "responded"
    /\ response.type = "clarification"
    /\ \E v \in AnswerValues :
         answers' = [k \in DOMAIN answers \cup {response.question[1].id} |->
                        IF k = response.question[1].id THEN v ELSE answers[k]]
    /\ pc' = "request"
    /\ next_question' = None
    /\ response' = NoResponse
    /\ planEntered' = FALSE
    /\ genCalled' = FALSE
    /\ UNCHANGED <<intent, answersNull, contextNull>>
    /\ UNCHANGED <<intentVars, chainVars, newVars>>

NextClarify == Clarify \/ ClientAnswer

SpecClarify == InitClarify /\ [][NextClarify]_vars

----------------------------------------------------------------------------
(* Properties of the clarification walk, under SpecClarify *)

\* the questions of the intent that are neither answered nor blocked by a
\* dependency, as positions in the catalog's declaration order
EligiblePositions(i, ans) ==
    {k \in 1..Len(QuestionsOf(i)) :
        /\ QuestionsOf(i)[k].id \notin DOMAIN ans
        /\ \A d \in 1..Len(QuestionsOf(i)[k].depends_on) :
              /\ QuestionsOf(i)[k].depends_on[d][1] \in DOMAIN ans
              /\ ans[QuestionsOf(i)[k].depends_on[d][1]]
                    \in QuestionsOf(i)[k].depends_on[d][2]}

Asked == pc = "responded" /\ ~answersNull

\* C1: the question get_next_question returns is never one whose id is
\* already a key of the answers map
C1_NeverAsksAnswered ==
    (Asked /\ next_question # None) => next_question[1].id \notin DOMAIN answers

C1_Witness ==
    /\ Asked
    /\ intent = "movie"
    /\ DOMAIN answers = {"food_timing", "note"}
    /\ next_question # None
    /\ next_question[1].id \in {"food_type", "movie_pref"}

\* C2: get_next_question returns the first question in declaration order
\* that is unanswered and whose every dependency has an allowed answer, and
\* None when there is none; for movie: no answers -> food_timing,
\* food_timing = none -> movie_pref (food_type skipped), food_timing = none
\* and movie_pref = any -> complete
C2_FirstEligibleQuestion ==
    Asked =>
      /\ IF EligiblePositions(intent, answers) = {}
         THEN next_question = None
         ELSE \E k \in EligiblePositions(intent, answers) :
                 /\ \A j \in EligiblePositions(intent, answers) : k <= j
                 /\ next_question = Some(QuestionsOf(intent)[k])
      /\ (intent = "movie" /\ DOMAIN answers = {})
            => (next_question # None /\ next_question[1].id = "food_timing")
      /\ (intent = "movie" /\ DOMAIN answers = {"food_timing"}
            /\ answers["food_timing"] = "none")
            => (next_question # None /\ next_question[1].id = "movie_pref")
      /\ (intent = "movie" /\ DOMAIN answers = {"food_timing", "movie_pref"}
            /\ answers["food_timing"] = "none" /\ answers["movie_pref"] = "any")
            => next_question = None

C2_Witness ==
    /\ Asked
    /\ intent = "movie"
    /\ DOMAIN answers = {"food_timing"}
    /\ answers["food_timing"] = "none"
    /\ next_question # None
    /\ next_question[1].id = "movie_pref"

PlanTypes == {"final_plan", "day_plan"}

\* C3 as stated: every /api/clarify response is a clarification or a final
\* plan; the plan step is reached only when the conversation is complete and
\* a clarification is returned whenever it is not
C3_ClarificationOrPlan ==
    pc = "responded" =>
      /\ response.type \in {"clarification"} \cup PlanTypes
      /\ ~(response.type = "clarification" /\ planEntered)
      /\ planEntered => is_conversation_complete(intent, answers)
      /\ ~is_conversation_complete(intent, answers) => response.type = "clarification"

\* C3 amended: every /api/clarify response is exactly one of a clarification,
\* a final plan, or the error body with status 500 that the handler returns
\* when handling raises; the plan step and the generation call are reached
\* only when get_next_question returned None, and a clarification is
\* returned whenever get_next_question returned a question
C3_ClarificationPlanOrError ==
    pc = "responded" =>
      /\ response.type \in {"clarification", "error"} \cup PlanTypes
      /\ response.type = "clarification" <=> next_question # None
      /\ response.type = "clarification" =>
            /\ ~planEntered /\ ~genCalled
            /\ response.question = next_question
            /\ ~is_conversation_complete(intent, answers)
      /\ planEntered => is_conversation_complete(intent, answers)
      /\ genCalled => planEntered
      /\ response.type \in PlanTypes <=> genCalled
      /\ response.type = "error" =>
            /\ response.status = 500
            /\ answersNull \/ contextNull
            /\ ~genCalled

C3_Witness ==
    /\ pc = "responded"
    /\ intent = "movie"
    /\ DOMAIN answers = {"food_timing", "movie_pref"}
    /\ answers["food_timing"] = "none"
    /\ response.type = "final_plan"
    /\ planEntered /\ genCalled

----------------------------------------------------------------------------
(* Python str operations on character sequences *)

UpperToLower ==
    ("A" :> "a") @@ ("B" :> "b") @@ ("C" :> "c") @@ ("D" :> "d") @@
    ("E" :> "e") @@ ("F" :> "f") @@ ("G" :> "g") @@ ("H" :> "h") @@
    ("I" :> "i") @@ ("J" :> "j") @@ ("K" :> "k") @@ ("L" :> "l") @@
    ("M" :> "m") @@ ("N" :> "n") @@ ("O" :> "o") @@ ("P" :> "p") @@
    ("Q" :> "q") @@ ("R" :> "r") @@ ("S" :> "s") @@ ("T" :> "t") @@
    ("U" :> "u") @@ ("V" :> "v") @@ ("W" :> "w") @@ ("X" :> "x") @@
    ("Y" :> "y") @@ ("Z" :> "z")

\* str.lower(), character by character
LowerChar(c) == IF c \in DOMAIN UpperToLower THEN UpperToLower[c] ELSE c

str_lower(s) == [k \in 1..Len(s) |-> LowerChar(s[k])]

\* sub in s
Contains(sub, s) ==
    \E i \in 0..(Len(s) - Len(sub)) : \A j \in 1..Len(sub) : s[i + j] = sub[j]

----------------------------------------------------------------------------
(* INTENT RECOGNITION SYSTEM *)

\* the dict in declaration order (the order .items() iterates in); emoji are
\* written as their code points
INTENT_PATTERNS == <<
    [intent |-> "movie",
     keywords |-> <<
        <<"m", "o", "v", "i", "e">>,
        <<"f", "i", "l", "m">>,
        <<"c", "i", "n", "e", "m", "a">>,
        <<"w", "a", "t", "c", "h">>,
        <<"t", "h", "e", "a", "t", "r", "e">>,
        <<"t", "h", "e", "a", "t", "e", "r">>,
        <<"s", "h", "o", "w">>,
        <<"m", "u", "l", "t", "i", "p", "l", "e", "x">>,
        <<"p", "v", "r">>,
        <<"i", "n", "o", "x">> >>,
     emoji |-> "U+1F3AC",
     chain |-> <<"movie", "food_check", "transport">>,
     duration_mins |-> 180],
    [intent |-> "food",
     keywords |-> <<
        <<"h", "u", "n", "g", "r", "y">>,
        <<"e", "a", "t">>,
        <<"f", "o", "o", "d">>,
        <<"r", "e", "s", "t", "a", "u", "r", "a", "n", "t">>,
        <<"d", "i", "n", "n", "e", "r">>,
        <<"l", "u", "n", "c", "h">>,
        <<"b", "r", "e", "a", "k", "f", "a", "s", "t">>,
        <<"c", "a", "f", "e">>,
        <<"c", "o", "f", "f", "e", "e">>,
        <<"s", "n", "a", "c", "k">>,
        <<"b", "i", "r", "y", "a", "n", "i">>,
        <<"p", "i", "z", "z", "a">>,
        <<"b", "u", "r", "g", "e", "r">>,
        <<"d", "h", "a", "b", "a">> >>,
     emoji |-> "U+1F37D",
     chain |-> <<"food">>,
     duration_mins |-> 90],
    [intent |-> "bored",
     keywords |-> <<
        <<"b", "o", "r", "e", "d">>,
        <<"n", "o", "t", "h", "i", "n", "g", " ", "t", "o", " ", "d", "o">>,
        <<"k", "i", "l", "l", " ", "t", "i", "m", "e">>,
        <<"f", "r", "e", "e", " ", "t", "i", "m", "e">>,
        <<"w", "h", "a", "t", " ", "t", "o", " ", "d", "o">>,
        <<"s", "u", "g", "g", "e", "s", "t">>,
        <<"i", "d", "e", "a", "s">> >>,
     emoji |-> "U+1F634",
     chain |-> <<"quick_activity", "food_check">>,
     duration_mins |-> 120],
    [intent |-> "date",
     keywords |-> <<
        <<"d", "a", "t", "e">>,
        <<"r", "o", "m", "a", "n", "t", "i", "c">>,
        <<"a", "n", "n", "i", "v", "e", "r", "s", "a", "r", "y">>,
        <<"s", "p", "e", "c", "i", "a", "l">>,
        <<"g", "i", "r", "l", "f", "r", "i", "e", "n", "d">>,
        <<"b", "o", "y", "f", "r", "i", "e", "n", "d">>,
        <<"p", "a", "r", "t", "n", "e", "r">>,
        <<"w", "i", "f", "e">>,
        <<"h", "u", "s", "b", "a", "n", "d">>,
        <<"c", "o", "u", "p", "l", "e">> >>,
     emoji |-> "U+1F495",
     chain |-> <<"romantic_dinner", "activity", "dessert">>,
     duration_mins |-> 240],
    [intent |-> "explore",
     keywords |-> <<
        <<"e", "x", "p", "l", "o", "r", "e">>,
        <<"d", "i", "s", "c", "o", "v", "e", "r">>,
        <<"w", "h", "a", "t", "'", "s", " ", "a", "r", "o", "u", "n", "d">>,
        <<"n", "e", "a", "r", "b", "y">>,
        <<"v", "i", "s", "i", "t">>,
        <<"s", "i", "g", "h", "t", "s", "e", "e", "i", "n", "g">>,
        <<"t", "o", "u", "r", "i", "s", "t">> >>,
     emoji |-> "U+1F5FA",
     chain |-> <<"explore", "food_check">>,
     duration_mins |-> 180],
    [intent |-> "chill",
     keywords |-> <<
        <<"c", "h", "i", "l", "l">>,
        <<"r", "e", "l", "a", "x">>,
        <<"c", "a", "l", "m">>,
        <<"p", "e", "a", "c", "e", "f", "u", "l">>,
        <<"q", "u", "i", "e", "t">>,
        <<"u", "n", "w", "i", "n", "d">>,
        <<"d", "e", "s", "t", "r", "e", "s", "s">> >>,
     emoji |-> "U+1F9D8",
     chain |-> <<"chill_spot", "cafe">>,
     duration_mins |-> 120],
    [intent |-> "adventure",
     keywords |-> <<
        <<"a", "d", "v", "e", "n", "t", "u", "r", "e">>,
        <<"t", "h", "r", "i", "l", "l">>,
        <<"e", "x", "c", "i", "t", "i", "n", "g">>,
        <<"a", "d", "r", "e", "n", "a", "l", "i", "n", "e">>,
        <<"f", "u", "n">>,
        <<"a", "c", "t", "i", "v", "i", "t", "y">>,
        <<"s", "p", "o", "r", "t", "s">> >>,
     emoji |-> "U+1F3A2",
     chain |-> <<"adventure", "food_check">>,
     duration_mins |-> 180],
    [intent |-> "shopping",
     keywords |-> <<
        <<"s", "h", "o", "p", "p", "i", "n", "g">>,
        <<"m", "a", "l", "l">>,
        <<"b", "u", "y">>,
        <<"s", "h", "o", "p">>,
        <<"m", "a", "r", "k", "e", "t">>,
        <<"s", "t", "o", "r", "e">> >>,
     emoji |-> "U+1F6CD",
     chain |-> <<"shopping", "food_check">>,
     duration_mins |-> 180],
    [intent |-> "nightlife",
     keywords |-> <<
        <<"c", "l", "u", "b">>,
        <<"b", "a", "r">>,
        <<"p", "u", "b">>,
        <<"n", "i", "g", "h", "t">>,
        <<"p", "a", "r", "t", "y">>,
        <<"d", "r", "i", "n", "k", "s">>,
        <<"b", "e", "e", "r">>,
        <<"c", "o", "c", "k", "t", "a", "i", "l">>,
        <<"l", "o", "u", "n", "g", "e">> >>,
     emoji |-> "U+1F378",
     chain |-> <<"dinner", "nightlife">>,
     duration_mins |-> 240] >>

\* sum(1 for kw in data["keywords"] if kw in user_lower)
KeywordMatches(data, user_lower) ==
    Cardinality({k \in 1..Len(data.keywords) : Contains(data.keywords[k], user_lower)})

\* min(0.9, 0.3 + (matches * 0.2)), in tenths
ConfidenceUncapped(matches) == 3 + (matches * 2)

Confidence(matches) ==
    IF 3 + (matches * 2) < 9 THEN 3 + (matches * 2) ELSE 9

\* the for loop over INTENT_PATTERNS.items(), from the i-th entry on
RECURSIVE DetectedFrom(_, _)
DetectedFrom(user_lower, i) ==
    IF i > Len(INTENT_PATTERNS) THEN <<>>
    ELSE LET data == INTENT_PATTERNS[i]
             matches == KeywordMatches(data, user_lower)
         IN IF matches > 0
            THEN <<[intent |-> data.intent,
                    confidence |-> Confidence(matches),
                    emoji |-> data.emoji,
                    chain |-> data.chain,
                    duration |-> data.duration_mins]>>
                 \o DetectedFrom(user_lower, i + 1)
            ELSE DetectedFrom(user_lower, i + 1)

\* one step of the stable descending sort: x goes behind every element whose
\* confidence is at least its own
RECURSIVE InsertDescending(_, _)
InsertDescending(sorted, x) ==
    IF sorted = <<>> THEN <<x>>
    ELSE IF Head(sorted).confidence >= x.confidence
         THEN <<Head(sorted)>> \o InsertDescending(Tail(sorted), x)
         ELSE <<x>> \o sorted

RECURSIVE InsertDescendingBeforeTies(_, _)
InsertDescendingBeforeTies(sorted, x) ==
    IF sorted = <<>> THEN <<x>>
    ELSE IF Head(sorted).confidence > x.confidence
         THEN <<Head(sorted)>> \o InsertDescendingBeforeTies(Tail(sorted), x)
         ELSE <<x>> \o sorted

RECURSIVE SortFrom(_, _, _)
SortFrom(list, sorted, i) ==
    IF i > Len(list) THEN sorted
    ELSE SortFrom(list, InsertDescending(sorted, list[i]), i + 1)

sort_unstable(list) ==
    LET n == Len(list)
        place(sorted, x) == InsertDescendingBeforeTies(sorted, x)
        RECURSIVE from(_, _)
        from(sorted, i) == IF i > n THEN sorted ELSE from(place(sorted, list[i]), i + 1)
    IN from(<<>>, 1)

\* detected.sort(key=lambda x: x["confidence"], reverse=True): list.sort is
\* stable and reverse=True keeps the original order of equal keys
sort_by_confidence(list) == SortFrom(list, <<>>, 1)

\* the entry returned for a falsy input
EmptyInputDefault == [intent |-> "explore", confidence |-> 5]

\* the entry returned when no keyword matched
NoMatchDefault ==
    [intent |-> "explore", confidence |-> 5, emoji |-> "U+1F5FA",
     chain |-> <<"explore">>, duration |-> 180]

detect_intent(text) ==
    IF text = <<>>
    THEN <<EmptyInputDefault>>
    ELSE LET sorted == sort_by_confidence(DetectedFrom(str_lower(text), 1))
         IN IF sorted # <<>> THEN sorted ELSE <<NoMatchDefault>>

----------------------------------------------------------------------------
(* Inputs of detect_intent: texts made of up to MaxWords fragments *)

Fragments == <<
    <<"S", "h", "o", "p", "p", "i", "n", "g", " ", "m", "a", "l", "l">>,
    <<"m", "a", "r", "k", "e", "t">>,
    <<"t", "h", "e", "a", "t", "e", "r">>,
    <<"D", "A", "T", "E">>,
    <<"p", "u", "b">>,
    <<" ">> >>

RECURSIVE Concat(_)
Concat(words) ==
    IF words = <<>> THEN <<>> ELSE Fragments[Head(words)] \o Concat(Tail(words))

Texts ==
    {Concat(w) : w \in UNION {[1..n -> 1..Len(Fragments)] : n \in 0..MaxWords}}

InitIntent ==
    /\ pc = "text"
    /\ user_input \in Texts
    /\ detected = <<>>
    /\ intent = "explore"
    /\ answers = EmptyDict
    /\ answersNull = FALSE
    /\ contextNull = FALSE
    /\ next_question = None
    /\ response = NoResponse
    /\ planEntered = FALSE
    /\ genCalled = FALSE
    /\ current_hour = 0
    /\ activity_duration_mins = 0
    /\ food_need = None
    /\ primary_intent = "explore"
    /\ context = EmptyDict
    /\ chain = <<>>
    /\ IdleNew

DetectIntent ==
    /\ pc = "text"
    /\ detected' = detect_intent(user_input)
    /\ pc' = "detected"
    /\ UNCHANGED user_input
    /\ UNCHANGED <<clarifyVars, chainVars, newVars>>

NextIntent == DetectIntent

SpecIntent == InitIntent /\ [][NextIntent]_vars

----------------------------------------------------------------------------
(* Properties of detect_intent, under SpecIntent *)

CatalogIndex(label) ==
    CHOOSE i \in 1..Len(INTENT_PATTERNS) : INTENT_PATTERNS[i].intent = label

MatchedEntries(text) ==
    {i \in 1..Len(INTENT_PATTERNS) :
        KeywordMatches(INTENT_PATTERNS[i], str_lower(text)) > 0}

\* C4: the list is never empty, confidences never increase along it, a
\* matched intent has confidence min(0.9, 0.3 + 0.2 * count), which lies in
\* [0.3, 0.9], and the synthetic default has confidence 0.5
C4_ConfidenceSortedAndBounded ==
    pc = "detected" =>
      /\ Len(detected) >= 1
      /\ \A k \in 1..(Len(detected) - 1) :
            detected[k].confidence >= detected[k + 1].confidence
      /\ IF MatchedEntries(user_input) = {}
         THEN /\ Len(detected) = 1
              /\ detected[1].intent = "explore"
              /\ detected[1].confidence = 5
         ELSE \A k \in 1..Len(detected) :
                \E i \in MatchedEntries(user_input) :
                   LET count == KeywordMatches(INTENT_PATTERNS[i], str_lower(user_input))
                   IN /\ detected[k].intent = INTENT_PATTERNS[i].intent
                      /\ detected[k].confidence * 10 =
                            (IF 30 + 20 * count < 90 THEN 30 + 20 * count ELSE 90)
                      /\ detected[k].confidence >= 3
                      /\ detected[k].confidence <= 9

C4_Witness ==
    /\ pc = "detected"
    /\ Len(detected) = 3
    /\ detected[1].intent = "shopping"
    /\ detected[1].confidence = 9
    /\ KeywordMatches(INTENT_PATTERNS[CatalogIndex("shopping")], str_lower(user_input)) = 4
    /\ detected[3].confidence = 5

\* C5: two detected intents of equal confidence appear in the order of
\* their declaration in the intent catalog
C5_TiesInCatalogOrder ==
    pc = "detected" =>
      \A j, k \in 1..Len(detected) :
         (j < k /\ detected[j].confidence = detected[k].confidence)
            => CatalogIndex(detected[j].intent) < CatalogIndex(detected[k].intent)

C5_Witness ==
    /\ pc = "detected"
    /\ Len(detected) = 3
    /\ detected[1].intent = "movie" /\ detected[1].confidence = 5
    /\ detected[2].intent = "food" /\ detected[2].confidence = 5
    /\ detected[3].intent = "date" /\ detected[3].confidence = 5

DetectedIntentFields == {"intent", "confidence", "emoji", "chain", "duration"}

\* C6: for the empty string the result is the single synthetic entry
\* returned when no keyword matches, and every entry of every result carries
\* label, confidence, emoji, chain and duration
C6_EmptyInputIsNoMatch ==
    pc = "detected" =>
      /\ user_input = <<>> => detected = <<NoMatchDefault>>
      /\ \A k \in 1..Len(detected) : DetectedIntentFields \subseteq DOMAIN detected[k]

----------------------------------------------------------------------------
(* ACTIVITY CHAINING LOGIC *)

\* s.replace(old, new) for a non-empty old: left to right, non-overlapping
RECURSIVE str_replace(_, _, _)
str_replace(s, old, new) ==
    IF Len(s) < Len(old) THEN s
    ELSE IF SubSeq(s, 1, Len(old)) = old
         THEN new \o str_replace(SubSeq(s, Len(old) + 1, Len(s)), old, new)
         ELSE <<Head(s)>> \o str_replace(Tail(s), old, new)

\* the labels calculate_food_need returns
LunchAfter == <<"l", "u", "n", "c", "h", "_", "a", "f", "t", "e", "r">>
DinnerAfter == <<"d", "i", "n", "n", "e", "r", "_", "a", "f", "t", "e", "r">>
LunchBefore == <<"l", "u", "n", "c", "h", "_", "b", "e", "f", "o", "r", "e">>
DinnerBefore == <<"d", "i", "n", "n", "e", "r", "_", "b", "e", "f", "o", "r", "e">>
Snack == <<"s", "n", "a", "c", "k">>
SnackAfter == <<"s", "n", "a", "c", "k", "_", "a", "f", "t", "e", "r">>

\* meal windows, (first, last) in minutes of the day
BREAKFAST == <<7 * 60, 10 * 60>>
LUNCH == <<12 * 60, 14 * 60 + 30>>
SNACK == <<16 * 60, 18 * 60>>
DINNER == <<19 * 60, 21 * 60 + 30>>

calculate_food_need_start_first(hour, duration) ==
    LET end_hour == hour + duration
    IN IF LUNCH[1] <= hour /\ hour <= LUNCH[2] THEN Some(LunchBefore)
       ELSE IF DINNER[1] <= hour /\ hour <= DINNER[2] THEN Some(DinnerBefore)
       ELSE IF LUNCH[1] <= end_hour /\ end_hour <= LUNCH[2] + 30 THEN Some(LunchAfter)
       ELSE IF DINNER[1] <= end_hour /\ end_hour <= DINNER[2] + 30 THEN Some(DinnerAfter)
       ELSE IF SNACK[1] <= hour /\ hour <= SNACK[2] THEN Some(Snack)
       ELSE IF SNACK[1] <= end_hour /\ end_hour <= SNACK[2] THEN Some(SnackAfter)
       ELSE None

\* end_hour = current_hour + duration / 60 hours, here hour + duration
\* minutes; the 0.5 hour added to a window's end is 30 minutes
calculate_food_need(hour, duration) ==
    LET end_hour == hour + duration
    IN IF LUNCH[1] <= end_hour /\ end_hour <= LUNCH[2] + 30 THEN Some(LunchAfter)
       ELSE IF DINNER[1] <= end_hour /\ end_hour <= DINNER[2] + 30 THEN Some(DinnerAfter)
       ELSE IF LUNCH[1] <= hour /\ hour <= LUNCH[2] THEN Some(LunchBefore)
       ELSE IF DINNER[1] <= hour /\ hour <= DINNER[2] THEN Some(DinnerBefore)
       ELSE IF SNACK[1] <= hour /\ hour <= SNACK[2] THEN Some(Snack)
       ELSE IF SNACK[1] <= end_hour /\ end_hour <= SNACK[2] THEN Some(SnackAfter)
       ELSE None

\* INTENT_PATTERNS.get(primary_intent, INTENT_PATTERNS["explore"])
IntentData(label) ==
    IF \E i \in 1..Len(INTENT_PATTERNS) : INTENT_PATTERNS[i].intent = label
    THEN INTENT_PATTERNS[CHOOSE i \in 1..Len(INTENT_PATTERNS) :
                            INTENT_PATTERNS[i].intent = label]
    ELSE INTENT_PATTERNS[CHOOSE i \in 1..Len(INTENT_PATTERNS) :
                            INTENT_PATTERNS[i].intent = "explore"]

\* context.get('local_hour', 12)
LocalHour(ctx) == IF "local_hour" \in DOMAIN ctx THEN ctx["local_hour"] ELSE 12 * 60

PrimaryItemFromCatalog(label) ==
    [type |-> IntentData(label).intent, priority |-> "primary", search_query |-> None]

\* the primary activity
PrimaryItem(label) ==
    [type |-> label, priority |-> "primary", search_query |-> None]

FoodPositionByAfter(need) ==
    IF Contains(<<"a", "f", "t", "e", "r">>, need) THEN "after" ELSE "before"

\* "before" if "before" in food_need else "after"
FoodPosition(need) ==
    IF Contains(<<"b", "e", "f", "o", "r", "e">>, need) THEN "before" ELSE "after"

\* food_need.replace("_before", "").replace("_after", "")
MealType(need) ==
    str_replace(str_replace(need, <<"_", "b", "e", "f", "o", "r", "e">>, <<>>),
                <<"_", "a", "f", "t", "e", "r">>, <<>>)

\* the reason text is kept as the values interpolated into it
FoodItem(need) ==
    [type |-> "food",
     subtype |-> MealType(need),
     priority |-> "anticipated",
     position |-> FoodPosition(need),
     reason |-> <<MealType(need), FoodPosition(need)>>]

IsLateShowStrict(hour) == hour > 19 * 60

\* current_hour >= 19
IsLateShow(hour) == hour >= 19 * 60

LateNightFoodItem ==
    [type |-> "late_night_food", priority |-> "anticipated",
     position |-> "after", reason |-> "post-movie meal"]

DessertItem ==
    [type |-> "dessert", priority |-> "bonus",
     position |-> "after", reason |-> "sweet note"]

build_activity_chain_dessert_with_meal(label, ctx) ==
    LET hour == LocalHour(ctx)
        intent_data == IntentData(label)
        need == calculate_food_need(hour, intent_data.duration_mins)
    IN <<PrimaryItem(label)>>
       \o (IF need # None THEN <<FoodItem(need[1])>> ELSE <<>>)
       \o (IF label = "movie" /\ IsLateShow(hour) THEN <<LateNightFoodItem>> ELSE <<>>)
       \o (IF label = "date" /\ need # None THEN <<DessertItem>> ELSE <<>>)

build_activity_chain(label, ctx) ==
    LET hour == LocalHour(ctx)
        intent_data == IntentData(label)
        need == calculate_food_need(hour, intent_data.duration_mins)
    IN <<PrimaryItem(label)>>
       \o (IF need # None THEN <<FoodItem(need[1])>> ELSE <<>>)
       \o (IF label = "movie" /\ IsLateShow(hour) THEN <<LateNightFoodItem>> ELSE <<>>)
       \o (IF label = "date" THEN <<DessertItem>> ELSE <<>>)

----------------------------------------------------------------------------
(* Inputs of calculate_food_need and build_activity_chain *)

Hours == {30 * k : k \in 0..MaxHalfHours}

Durations == {20, 30, 60, 90, 120, 180, 240}

\* the catalog's labels and two labels that are not in the catalog
ChainIntents ==
    {INTENT_PATTERNS[i].intent : i \in 1..Len(INTENT_PATTERNS)} \cup {"day_plan", "picnic"}

Contexts == {EmptyDict} \cup {[k \in {"local_hour"} |-> h] : h \in Hours}

InitChain ==
    /\ pc \in {"food_args", "chain_args"}
    /\ IF pc = "food_args"
       THEN /\ current_hour \in Hours
            /\ activity_duration_mins \in Durations
            /\ primary_intent = "explore"
            /\ context = EmptyDict
       ELSE /\ current_hour = 0
            /\ activity_duration_mins = 0
            /\ primary_intent \in ChainIntents
            /\ context \in Contexts
    /\ food_need = None
    /\ chain = <<>>
    /\ IdleNew
    /\ user_input = <<>>
    /\ detected = <<>>
    /\ intent = "explore"
    /\ answers = EmptyDict
    /\ answersNull = FALSE
    /\ contextNull = FALSE
    /\ next_question = None
    /\ response = NoResponse
    /\ planEntered = FALSE
    /\ genCalled = FALSE

CalculateFoodNeed ==
    /\ pc = "food_args"
    /\ food_need' = calculate_food_need(current_hour, activity_duration_mins)
    /\ pc' = "food_done"
    /\ UNCHANGED <<current_hour, activity_duration_mins, primary_intent, context, chain>>
    /\ UNCHANGED <<clarifyVars, intentVars, newVars>>

BuildActivityChain ==
    /\ pc = "chain_args"
    /\ chain' = build_activity_chain(primary_intent, context)
    /\ pc' = "chain_done"
    /\ UNCHANGED <<current_hour, activity_duration_mins, primary_intent, context, food_need>>
    /\ UNCHANGED <<clarifyVars, intentVars, newVars>>

NextChain == CalculateFoodNeed \/ BuildActivityChain

SpecChain == InitChain /\ [][NextChain]_vars

----------------------------------------------------------------------------
(* Properties of the meal-timing rule and the chain builder, under SpecChain *)

Within(x, first, last) == first <= x /\ x <= last

ItemsWith(type, priority) ==
    {k \in 1..Len(chain) : chain[k].type = type /\ chain[k].priority = priority}

\* C8: for every label, in the catalog or not, the first item of the chain
\* is the label with priority primary and no other item is primary
C8_ExactlyOnePrimaryFirst ==
    pc = "chain_done" =>
      /\ Len(chain) >= 1
      /\ chain[1].type = primary_intent
      /\ chain[1].priority = "primary"
      /\ {k \in 1..Len(chain) : chain[k].priority = "primary"} = {1}

C8_Witness ==
    /\ pc = "chain_done"
    /\ primary_intent = "picnic"
    /\ Len(chain) = 2
    /\ chain[2].priority = "anticipated"

\* the position and the subtype the claim gives for each label
ExpectedPosition(need) ==
    IF need \in {LunchBefore, DinnerBefore} THEN "before" ELSE "after"

ExpectedSubtype(need) ==
    IF need \in {LunchBefore, LunchAfter} THEN <<"l", "u", "n", "c", "h">>
    ELSE IF need \in {DinnerBefore, DinnerAfter} THEN <<"d", "i", "n", "n", "e", "r">>
    ELSE <<"s", "n", "a", "c", "k">>

\* C9: the chain has an anticipated food item exactly when the meal rule
\* gives a label for the hour and the intent's catalog duration; its
\* position is before for the _before labels and after for all others
\* (snack and snack_after included) and its subtype is lunch, dinner or snack
C9_FoodItemFollowsMealNeed ==
    pc = "chain_done" =>
      LET need == calculate_food_need(LocalHour(context),
                                      IntentData(primary_intent).duration_mins)
          food == ItemsWith("food", "anticipated")
      IN /\ need = None <=> food = {}
         /\ need # None =>
              /\ food = {2}
              /\ chain[2].position = ExpectedPosition(need[1])
              /\ chain[2].subtype = ExpectedSubtype(need[1])

C9_Witness ==
    /\ pc = "chain_done"
    /\ primary_intent = "food"
    /\ LocalHour(context) = 16 * 60
    /\ Len(chain) = 2
    /\ chain[2].type = "food"
    /\ chain[2].subtype = <<"s", "n", "a", "c", "k">>
    /\ chain[2].position = "after"

\* C10: the chain has an anticipated late_night_food item exactly when the
\* intent is movie and the hour is at least 19; for movie at 19 the chain is
\* movie primary, food anticipated after, late_night_food anticipated
C10_LateNightFoodForLateMovie ==
    pc = "chain_done" =>
      /\ ItemsWith("late_night_food", "anticipated") # {}
            <=> (primary_intent = "movie" /\ LocalHour(context) >= 19 * 60)
      /\ (primary_intent = "movie" /\ LocalHour(context) = 19 * 60) =>
            /\ Len(chain) = 3
            /\ chain[1].type = "movie" /\ chain[1].priority = "primary"
            /\ chain[2].type = "food" /\ chain[2].priority = "anticipated"
            /\ chain[2].position = "after"
            /\ chain[3].type = "late_night_food" /\ chain[3].priority = "anticipated"

C10_Witness ==
    /\ pc = "chain_done"
    /\ primary_intent = "movie"
    /\ "local_hour" \in DOMAIN context
    /\ context["local_hour"] = 19 * 60
    /\ Len(chain) = 3
    /\ chain[3].type = "late_night_food"

\* C11: for date, at every hour, exactly one item is a dessert with priority
\* bonus and it is the last item, with or without a food item before it; no
\* other intent's chain has a dessert item
C11_DessertLastForDateOnly ==
    pc = "chain_done" =>
      LET desserts == {k \in 1..Len(chain) : chain[k].type = "dessert"}
      IN IF primary_intent = "date"
         THEN /\ desserts = {Len(chain)}
              /\ ItemsWith("dessert", "bonus") = {Len(chain)}
         ELSE desserts = {}

C11_Witness ==
    /\ pc = "chain_done"
    /\ primary_intent = "date"
    /\ LocalHour(context) = 0
    /\ Len(chain) = 2
    /\ chain[2].type = "dessert"
    /\ ItemsWith("food", "anticipated") = {}

----------------------------------------------------------------------------
(* LOCATION RESOLVER *)

Whitespace == {" ", "\t", "\n"}

\* str.strip()
RECURSIVE str_lstrip(_)
str_lstrip(s) ==
    IF s # <<>> /\ Head(s) \in Whitespace THEN str_lstrip(Tail(s)) ELSE s

RECURSIVE str_rstrip(_)
str_rstrip(s) ==
    IF s # <<>> /\ s[Len(s)] \in Whitespace
    THEN str_rstrip(SubSeq(s, 1, Len(s) - 1)) ELSE s

str_strip(s) == str_rstrip(str_lstrip(s))

\* the fixed default city
DefaultCity == <<"G", "u", "r", "u", "g", "r", "a", "m">>

IsPlaceholderCaseSensitive(text) ==
    \/ Contains(<<"f", "o", "u", "n", "d">>, text)
    \/ Contains(<<"l", "o", "c", "a", "t", "i", "o", "n">>, text)

\* 'found' in loc_input.lower() or 'location' in loc_input.lower()
IsPlaceholder(text) ==
    \/ Contains(<<"f", "o", "u", "n", "d">>, str_lower(text))
    \/ Contains(<<"l", "o", "c", "a", "t", "i", "o", "n">>, str_lower(text))

\* address.get(key), with '' for the None of a missing key: both are falsy
AddressGet(address, key) == IF key \in DOMAIN address THEN address[key] ELSE <<>>

AddressCityTownFirst(address) ==
    IF AddressGet(address, "town") # <<>> THEN AddressGet(address, "town")
    ELSE IF AddressGet(address, "city") # <<>> THEN AddressGet(address, "city")
    ELSE IF AddressGet(address, "suburb") # <<>> THEN AddressGet(address, "suburb")
    ELSE AddressGet(address, "state")

\* address.get('city') or address.get('town') or address.get('suburb')
\*     or address.get('state')
AddressCity(address) ==
    IF AddressGet(address, "city") # <<>> THEN AddressGet(address, "city")
    ELSE IF AddressGet(address, "town") # <<>> THEN AddressGet(address, "town")
    ELSE IF AddressGet(address, "suburb") # <<>> THEN AddressGet(address, "suburb")
    ELSE AddressGet(address, "state")

\* the geocoding branch: the city it returns, or None when it falls through
\* (no coordinates, no geopy, the call raised, no location, no component)
GeocodedCity(coords, has_geopy, geo) ==
    IF coords /\ has_geopy /\ geo.kind = "address" /\ AddressCity(geo.address) # <<>>
    THEN Some(AddressCity(geo.address))
    ELSE None

\* resolve_location reads the coordinates and the location text of the
\* context only; plan_type and destination are not read
resolve_location(ptype, dest, coords, loc_input, has_geopy, geo) ==
    IF GeocodedCity(coords, has_geopy, geo) # None
    THEN [city |-> GeocodedCity(coords, has_geopy, geo)[1], from |-> "geocoder"]
    ELSE IF loc_input # <<>> /\ ~IsPlaceholder(loc_input)
         THEN [city |-> str_strip(loc_input), from |-> "text"]
         ELSE [city |-> DefaultCity, from |-> "default"]

----------------------------------------------------------------------------
(* Inputs of resolve_location *)

RequestPlanTypes == {"NOW", "TRIP"}

LocationFound == <<"L", "o", "c", "a", "t", "i", "o", "n", " ", "F", "o", "u", "n", "d">>

Destinations == {None, Some(<<"P", "a", "r", "i", "s">>), Some(LocationFound)}

LocationTexts == {
    <<>>,
    <<" ", " ", " ">>,
    <<" ", "G", "o", "a", " ">>,
    <<"D", "e", "l", "h", "i">>,
    LocationFound,
    <<"n", "o", "t", " ", "F", "O", "U", "N", "D">> }

\* the name the geocoder gives for each address component
ComponentName ==
    [city |-> <<"P", "u", "n", "e">>, town |-> <<"S", "o", "h", "n", "a">>,
     suburb |-> <<"S", "a", "k", "e", "t">>, state |-> <<"H", "a", "r", "y", "a", "n", "a">>]

\* every address whose components are missing, empty or named
Addresses ==
    UNION {[S -> {"empty", "named"}] : S \in SUBSET DOMAIN ComponentName}

AddressOf(shape) ==
    [k \in DOMAIN shape |-> IF shape[k] = "named" THEN ComponentName[k] ELSE <<>>]

GeoOutcomes ==
    {[kind |-> "raise", address |-> EmptyDict], [kind |-> "none", address |-> EmptyDict]}
    \cup {[kind |-> "address", address |-> AddressOf(a)] : a \in Addresses}

InitLocation ==
    /\ pc = "location_args"
    /\ plan_type \in RequestPlanTypes
    /\ destination \in Destinations
    /\ coordinates \in BOOLEAN
    /\ HAS_GEOPY \in BOOLEAN
    /\ location \in LocationTexts
    /\ geocoded \in (IF coordinates /\ HAS_GEOPY
                     THEN GeoOutcomes
                     ELSE {[kind |-> "none", address |-> EmptyDict]})
    /\ city = <<>>
    /\ city_from = "none"
    /\ IdleClarify /\ IdleIntent /\ IdleChain /\ IdleAssist /\ IdleRoutes /\ IdleLater

ResolveLocation ==
    /\ pc = "location_args"
    /\ LET r == resolve_location(plan_type, destination, coordinates, location,
                                 HAS_GEOPY, geocoded)
       IN /\ city' = r.city
          /\ city_from' = r.from
    /\ pc' = "location_done"
    /\ UNCHANGED <<plan_type, destination, coordinates, location, HAS_GEOPY, geocoded>>
    /\ UNCHANGED <<clarifyVars, intentVars, chainVars, assistVars, routeVars, laterVars>>

NextLocation == ResolveLocation

SpecLocation == InitLocation /\ [][NextLocation]_vars

----------------------------------------------------------------------------
(* Properties of resolve_location, under SpecLocation *)

\* C12: the city returned is never the empty string, and it is the default
\* city when neither a geocoded component nor a location text is supplied
C12_CityNeverEmpty ==
    pc = "location_done" =>
      /\ city # <<>>
      /\ (GeocodedCity(coordinates, HAS_GEOPY, geocoded) = None /\ location = <<>>)
            => city = DefaultCity

\* C13: a TRIP request with a destination longer than 2 characters that
\* holds no placeholder word resolves to that destination, trimmed, whatever
\* coordinates and location text come with it
C13_TripDestinationFirst ==
    (/\ pc = "location_done"
     /\ plan_type = "TRIP"
     /\ destination # None
     /\ Len(destination[1]) > 2
     /\ ~IsPlaceholder(destination[1]))
        => city = str_strip(destination[1])

MentionsPlaceholder(text) ==
    \E word \in {<<"f", "o", "u", "n", "d">>, <<"l", "o", "c", "a", "t", "i", "o", "n">>} :
        \E i \in 0..(Len(text) - Len(word)) :
            \A j \in 1..Len(word) : LowerChar(text[i + j]) = word[j]

\* C14: a destination or location text holding the word found or location,
\* in any letter case, is never the value returned: the result then comes from
\* the geocoder or is the default city
C14_PlaceholderNeverReturned ==
    pc = "location_done" =>
      /\ (location # <<>> /\ MentionsPlaceholder(location))
            => (city_from \in {"geocoder", "default"} /\ city # location)
      /\ (destination # None /\ MentionsPlaceholder(destination[1]))
            => city # destination[1]
      /\ (plan_type = "TRIP" /\ destination = Some(LocationFound))
            => city # LocationFound

C14_Witness ==
    /\ pc = "location_done"
    /\ plan_type = "TRIP"
    /\ destination = Some(LocationFound)
    /\ location = LocationFound
    /\ city_from = "default"
    /\ city = DefaultCity

ComponentPriority == <<"city", "town", "suburb", "state">>

\* the components of the geocoder's address that hold a name, by priority
NamedComponents ==
    {i \in 1..Len(ComponentPriority) :
        /\ ComponentPriority[i] \in DOMAIN geocoded.address
        /\ geocoded.address[ComponentPriority[i]] # <<>>}

GeocodingSucceeded ==
    coordinates /\ HAS_GEOPY /\ geocoded.kind = "address" /\ NamedComponents # {}

\* C24: when reverse geocoding fails (exception, no result, no city, town,
\* suburb or state component) the resolver falls through to the free-text
\* location and then to the default city; when it succeeds the first
\* non-empty of city, town, suburb, state is returned, whatever the text
C24_GeocodingFallThrough ==
    pc = "location_done" =>
      IF GeocodingSucceeded
      THEN LET first == CHOOSE i \in NamedComponents : \A j \in NamedComponents : i <= j
           IN city = geocoded.address[ComponentPriority[first]]
      ELSE IF location # <<>> /\ ~MentionsPlaceholder(location)
           THEN city = str_strip(location) /\ city_from = "text"
           ELSE city = DefaultCity /\ city_from = "default"

C24_Witness ==
    /\ pc = "location_done"
    /\ GeocodingSucceeded
    /\ NamedComponents = {2, 4}
    /\ location = <<"D", "e", "l", "h", "i">>
    /\ city = ComponentName["town"]

----------------------------------------------------------------------------
(* /api/assist: the handler assist(), one action per call it makes *)

\* context.get('local_hour', datetime.now().hour)
assist_current_hour(ctx, now) ==
    IF "local_hour" \in DOMAIN ctx THEN ctx["local_hour"] ELSE now

\* the if/elif ladder over current_hour
time_phase(hour) ==
    IF hour < 6 * 60 THEN "late_night"
    ELSE IF hour < 12 * 60 THEN "morning"
    ELSE IF hour < 17 * 60 THEN "afternoon"
    ELSE IF hour < 21 * 60 THEN "evening"
    ELSE "night"

\* primary_intent.get('duration', 180)
primary_duration(entry) ==
    IF "duration" \in DOMAIN entry THEN entry.duration ELSE 180

WeatherReport == [condition |-> "Clear", is_rainy |-> FALSE, is_hot |-> FALSE]

\* get_weather: None without an API key, None when the request raised or
\* answered with another status than 200, the report otherwise
get_weather(has_key, outcome) ==
    IF ~has_key THEN None
    ELSE IF outcome = "ok" THEN Some(WeatherReport)
    ELSE None

WeatherOutcomes == {"ok", "status_error", "raise"}

SearchHits == <<"hit">>

SearchOutcomes == {"hits", "raise"}

DictSet(d, key, value) ==
    [k \in (DOMAIN d) \cup {key} |-> IF k = key THEN value ELSE d[k]]

search_item_drops_failure(results, type, outcome) ==
    IF outcome = "hits" THEN DictSet(results, type, SearchHits) ELSE results

\* the body of the search loop once tavily.search has returned or raised:
\* search_results[item['type']] = results.get('results', []), or [] in the
\* except branch
search_item(results, type, outcome) ==
    IF outcome = "hits"
    THEN DictSet(results, type, SearchHits)
    ELSE DictSet(results, type, <<>>)

ChainTypes(items) == [i \in 1..Len(items) |-> items[i].type]

\* the values interpolated into CHAIN_THINKING_PROMPT
compose_prompt(query, entry, items, where, hour, report, need, results) ==
    [query |-> query,
     intent |-> entry.intent,
     confidence |-> entry.confidence,
     chain |-> ChainTypes(items),
     city |-> where,
     time_phase |-> time_phase(hour),
     weather |-> IF report # None THEN report[1].condition ELSE "Unknown",
     food_need |-> IF need # None THEN need[1] ELSE "None needed",
     search_results |-> results]

\* the two bodies the except branches send, by the keys they carry
AssistFallback ==
    [status |-> 200, kind |-> "fallback",
     keys |-> {"greeting", "chain_explanation", "cards", "closing"}]

AssistError ==
    [status |-> 500, kind |-> "error", keys |-> {"greeting", "cards", "closing"}]

\* json.loads(raw_response.strip()): text that is not JSON, fenced or not,
\* raises JSONDecodeError; any JSON value is returned
json_loads(raw) ==
    IF raw.kind \in {"object", "non_object"} THEN "value" ELSE "JSONDecodeError"

\* lines 1463-1508 after ask_gemini returned: parse, response['meta'] = ...,
\* jsonify; item assignment on a value that is not a dict raises TypeError,
\* which the except Exception branch answers
assist_respond(raw) ==
    IF json_loads(raw) = "JSONDecodeError" THEN AssistFallback
    ELSE IF raw.kind = "non_object" THEN AssistError
    ELSE [status |-> 200, kind |-> "plan", keys |-> raw.keys \cup {"meta"}]

assist_next_pc_search_after_prompt(step, index, length) ==
    IF step = "assist_start" THEN "assist_weather"
    ELSE IF step = "assist_weather" THEN "assist_chain"
    ELSE IF step = "assist_chain" THEN "assist_compose"
    ELSE IF step = "assist_compose" THEN "assist_generate"
    ELSE IF step = "assist_generate"
         THEN (IF index <= length THEN "assist_search" ELSE "assist_parse")
    ELSE IF step = "assist_search"
         THEN (IF index <= length THEN "assist_search" ELSE "assist_parse")
    ELSE "assist_done"

\* the statement order of the try block: the handler's position after a step
\* that did not raise; index is the loop's next position in a chain of the
\* given length
assist_next_pc(step, index, length) ==
    IF step = "assist_start" THEN "assist_weather"
    ELSE IF step = "assist_weather" THEN "assist_chain"
    ELSE IF step \in {"assist_chain", "assist_search"}
         THEN (IF index <= length THEN "assist_search" ELSE "assist_compose")
    ELSE IF step = "assist_compose" THEN "assist_generate"
    ELSE IF step = "assist_generate" THEN "assist_parse"
    ELSE "assist_done"

----------------------------------------------------------------------------
(* Inputs of assist *)

AssistBodies == {"object", "null"}

AssistQueries == {
    <<>>,
    <<" ", "M", "o", "v", "i", "e", " ">>,
    <<"h", "u", "n", "g", "r", "y">>,
    <<"d", "a", "t", "e">> }

AssistContexts == {EmptyDict, [local_hour |-> 19 * 60]}

NowHours == {10 * 60, 20 * 60}

AssistLocations == {<<>>, <<"D", "e", "l", "h", "i">>}

AssistGeoOutcomes ==
    {[kind |-> "raise", address |-> EmptyDict],
     [kind |-> "address", address |-> [city |-> ComponentName["city"]]]}

\* what ask_gemini gives: text holding a JSON object (by its keys, and whether
\* the plan it carries has a defect such as a generic place name), text
\* holding another JSON value, fenced JSON, text that is not JSON, or the
\* exception it raises
Replies ==
    {[kind |-> "object", keys |-> K, issues |-> i] :
        K \in {{"greeting", "cards", "closing"}, {"greeting", "cards"}, {"cards"}},
        i \in BOOLEAN}
    \cup {[kind |-> k, keys |-> {}, issues |-> FALSE] :
            k \in {"non_object", "fenced", "garbage", "raise"}}

InitAssist ==
    /\ pc = "assist_start"
    /\ body \in AssistBodies
    /\ user_input \in AssistQueries
    /\ context \in AssistContexts
    /\ now_hour \in NowHours
    /\ tavily \in BOOLEAN
    /\ weather_key \in BOOLEAN
    /\ plan_type = "NOW"
    /\ destination = None
    /\ coordinates \in BOOLEAN
    /\ HAS_GEOPY = TRUE
    /\ location \in AssistLocations
    /\ geocoded \in (IF coordinates
                     THEN AssistGeoOutcomes
                     ELSE {[kind |-> "none", address |-> EmptyDict]})
    /\ (body = "null") =>
          /\ user_input = <<>> /\ context = EmptyDict /\ ~coordinates /\ location = <<>>
          /\ now_hour = 10 * 60 /\ ~tavily /\ ~weather_key
    /\ city = <<>>
    /\ city_from = "none"
    /\ detected = <<>>
    /\ current_hour = 0
    /\ activity_duration_mins = 0
    /\ food_need = None
    /\ primary_intent = "explore"
    /\ chain = <<>>
    /\ primary = None
    /\ weather = None
    /\ search_index = 1
    /\ search_outcomes = <<>>
    /\ search_results = EmptyDict
    /\ prompt = None
    /\ reply = [kind |-> "none", keys |-> {}, issues |-> FALSE]
    /\ gen_calls = 0
    /\ assist_response = [status |-> 0, kind |-> "none", keys |-> {}]
    /\ log = <<>>
    /\ IdleClarify /\ IdleRoutes /\ IdleLater

\* lines 1380-1413: request.json, the query, resolve_location, the context,
\* the hour, detect_intent; data.get on a null body raises AttributeError,
\* which the except Exception branch answers
AssistStart ==
    /\ pc = "assist_start"
    /\ IF body = "null"
       THEN /\ assist_response' = AssistError
            /\ pc' = "assist_done"
            /\ UNCHANGED <<city, city_from, detected, primary, current_hour, log>>
       ELSE LET r == resolve_location(plan_type, destination, coordinates, location,
                                      HAS_GEOPY, geocoded)
                intents == detect_intent(str_strip(user_input))
            IN /\ city' = r.city
               /\ city_from' = r.from
               /\ log' = IF coordinates /\ HAS_GEOPY THEN log \o <<"geocode">> ELSE log
               /\ current_hour' = assist_current_hour(context, now_hour)
               /\ detected' = intents
               /\ primary' = Some(intents[1])
               /\ pc' = assist_next_pc("assist_start", search_index, Len(chain))
               /\ UNCHANGED assist_response
    /\ UNCHANGED <<body, tavily, weather_key, now_hour, weather,
                   search_index, search_outcomes, search_results, prompt, reply,
                   gen_calls>>
    /\ UNCHANGED <<plan_type, destination, coordinates, location, HAS_GEOPY, geocoded>>
    /\ UNCHANGED <<user_input, activity_duration_mins, food_need, primary_intent,
                   context, chain>>
    /\ UNCHANGED <<clarifyVars, routeVars, laterVars>>

\* line 1416: get_weather(city)
AssistWeather ==
    /\ pc = "assist_weather"
    /\ \E outcome \in WeatherOutcomes :
         /\ weather' = get_weather(weather_key, outcome)
         /\ log' = IF weather_key THEN log \o <<"weather">> ELSE log
    /\ pc' = assist_next_pc("assist_weather", search_index, Len(chain))
    /\ UNCHANGED <<body, tavily, weather_key, now_hour, primary,
                   search_index, search_outcomes, search_results, prompt, reply,
                   gen_calls, assist_response>>
    /\ UNCHANGED <<clarifyVars, intentVars, chainVars, locationVars, routeVars,
                   laterVars>>

\* lines 1421-1433: build_activity_chain, calculate_food_need, search_results = {}
AssistBuildChain ==
    /\ pc = "assist_chain"
    /\ LET items == build_activity_chain(primary[1].intent, context)
       IN /\ chain' = items
          /\ primary_intent' = primary[1].intent
          /\ activity_duration_mins' = primary_duration(primary[1])
          /\ food_need' =
                calculate_food_need(current_hour, primary_duration(primary[1]))
          /\ search_index' = 1
          /\ search_results' = EmptyDict
          /\ log' = log \o <<"chain">>
          /\ pc' = assist_next_pc("assist_chain", 1, Len(items))
    /\ UNCHANGED <<body, tavily, weather_key, now_hour, primary, weather,
                   search_outcomes, prompt, reply, gen_calls, assist_response>>
    /\ UNCHANGED <<current_hour, context>>
    /\ UNCHANGED <<clarifyVars, intentVars, locationVars, routeVars, laterVars>>

\* lines 1434-1441: one pass of the loop over the chain; without a search
\* client the pass only builds the query
AssistSearch ==
    /\ pc = "assist_search"
    /\ search_index <= Len(chain)
    /\ IF tavily
       THEN \E outcome \in SearchOutcomes :
              /\ search_results' =
                    search_item(search_results, chain[search_index].type, outcome)
              /\ search_outcomes' = Append(search_outcomes, outcome)
              /\ log' = log \o <<"search">>
       ELSE UNCHANGED <<search_results, search_outcomes, log>>
    /\ search_index' = search_index + 1
    /\ pc' = assist_next_pc("assist_search", search_index + 1, Len(chain))
    /\ UNCHANGED <<body, tavily, weather_key, now_hour, primary, weather, prompt,
                   reply, gen_calls, assist_response>>
    /\ UNCHANGED <<clarifyVars, intentVars, chainVars, locationVars, routeVars,
                   laterVars>>

\* lines 1444-1456: CHAIN_THINKING_PROMPT.format(...)
AssistCompose ==
    /\ pc = "assist_compose"
    /\ prompt' = Some(compose_prompt(str_strip(user_input), primary[1], chain, city,
                                     current_hour, weather, food_need, search_results))
    /\ log' = log \o <<"prompt">>
    /\ pc' = assist_next_pc("assist_compose", search_index, Len(chain))
    /\ UNCHANGED <<body, tavily, weather_key, now_hour, primary, weather,
                   search_index, search_outcomes, search_results, reply, gen_calls,
                   assist_response>>
    /\ UNCHANGED <<clarifyVars, intentVars, chainVars, locationVars, routeVars,
                   laterVars>>

\* line 1460: ask_gemini(prompt); the exception it raises is answered by the
\* except Exception branch
AssistGenerate ==
    /\ pc = "assist_generate"
    /\ \E raw \in Replies :
         /\ reply' = raw
         /\ IF raw.kind = "raise"
            THEN /\ assist_response' = AssistError
                 /\ pc' = "assist_done"
            ELSE /\ pc' = assist_next_pc("assist_generate", search_index, Len(chain))
                 /\ UNCHANGED assist_response
    /\ gen_calls' = gen_calls + 1
    /\ log' = log \o <<"generate">>
    /\ UNCHANGED <<body, tavily, weather_key, now_hour, primary, weather,
                   search_index, search_outcomes, search_results, prompt>>
    /\ UNCHANGED <<clarifyVars, intentVars, chainVars, locationVars, routeVars,
                   laterVars>>

\* lines 1463-1508: json.loads, the meta entry, jsonify, and the two except
\* branches
AssistRespond ==
    /\ pc = "assist_parse"
    /\ assist_response' = assist_respond(reply)
    /\ pc' = assist_next_pc("assist_parse", search_index, Len(chain))
    /\ UNCHANGED <<body, tavily, weather_key, now_hour, primary, weather,
                   search_index, search_outcomes, search_results, prompt, reply,
                   gen_calls, log>>
    /\ UNCHANGED <<clarifyVars, intentVars, chainVars, locationVars, routeVars,
                   laterVars>>

NextAssist ==
    \/ AssistStart
    \/ AssistWeather
    \/ AssistBuildChain
    \/ AssistSearch
    \/ AssistCompose
    \/ AssistGenerate
    \/ AssistRespond

SpecAssist == InitAssist /\ [][NextAssist]_vars

----------------------------------------------------------------------------
(* Properties of /api/assist, under SpecAssist *)

MalformedReplyKinds == {"non_object", "fenced", "garbage"}

\* C15: a malformed model reply (text that is not JSON, fenced JSON, or JSON
\* that is not an object) never gives an HTTP error response: the client gets
\* a success response carrying the fixed fallback payload
C15_MalformedReplyGivesFallback ==
    (pc = "assist_done" /\ reply.kind \in MalformedReplyKinds)
        => (assist_response.status = 200 /\ assist_response = AssistFallback)

\* C16: the generation collaborator is called at most twice per request, and
\* a second time exactly when the first plan had a validation issue
C16_OneCorrectiveRegeneration ==
    (pc = "assist_done" /\ reply.kind = "object")
        => (gen_calls <= 2 /\ (gen_calls = 2 <=> reply.issues))

\* C17: every response of the route, on the success path and on every
\* fallback and error path, carries a greeting and a closing
C17_GreetingAndClosingAlways ==
    pc = "assist_done" => {"greeting", "closing"} \subseteq assist_response.keys

\* the positions of the searches issued for one item type, in order
SearchesOf(type) ==
    {i \in 1..Len(search_outcomes) : chain[i].type = type}

\* C19: a failure of the search for one chain item, of the weather lookup
\* or of the reverse geocoding is treated as no data: the failing item gets
\* empty results, the searches for the remaining items are still issued, and
\* the prompt is composed and the generation call made
C19_CollaboratorFailureIsNoData ==
    /\ \A i \in 1..Len(search_outcomes) :
          (/\ search_outcomes[i] = "raise"
           /\ \A j \in SearchesOf(chain[i].type) : j <= i)
              => /\ chain[i].type \in DOMAIN search_results
                 /\ search_results[chain[i].type] = <<>>
    /\ (weather_key /\ pc \notin {"assist_start", "assist_weather"} /\ body = "object")
          => weather \in {None, Some(WeatherReport)}
    /\ (geocoded.kind = "raise" /\ pc # "assist_start" /\ body = "object")
          => city_from \in {"text", "default"}
    /\ (pc \in {"assist_search", "assist_compose", "assist_generate"})
          => ENABLED (AssistSearch \/ AssistCompose \/ AssistGenerate)
    /\ (pc = "assist_done" /\ body = "object")
          => /\ tavily => Len(search_outcomes) = Len(chain)
             /\ prompt # None
             /\ gen_calls = 1

C19_Witness ==
    /\ pc = "assist_done"
    /\ geocoded.kind = "raise"
    /\ weather_key /\ weather = None
    /\ Len(chain) = 3
    /\ search_outcomes = <<"raise", "hits", "raise">>
    /\ search_results[chain[1].type] = <<>>
    /\ search_results[chain[2].type] = SearchHits
    /\ prompt # None
    /\ gen_calls = 1
    /\ assist_response.kind = "plan"

Positions(event) == {i \in 1..Len(log) : log[i] = event}

\* C20: the chain is built before any search call is issued, every search
\* call (one per chain item) has returned or failed before the prompt is
\* composed, the generation call comes after the prompt, and no search call
\* comes after the generation call
C20_FixedStepOrder ==
    /\ \A i \in Positions("search") : \E j \in Positions("chain") : j < i
    /\ \A i \in Positions("prompt") :
          /\ \A j \in Positions("search") : j < i
          /\ tavily => Cardinality(Positions("search")) = Len(chain)
    /\ \A i \in Positions("generate") :
          /\ \E j \in Positions("prompt") : j < i
          /\ \A j \in Positions("search") : j < i

C20_Witness ==
    /\ pc = "assist_done"
    /\ Len(chain) = 3
    /\ log = <<"chain", "search", "search", "search", "prompt", "generate">>
    /\ assist_response.kind = "plan"

----------------------------------------------------------------------------
(* The route handlers and what each does with an exception *)

Routes == {"assist", "clarify", "plan", "options", "itinerary", "wizard_movies",
           "wizard_itinerary", "preferences_get", "preferences_post"}

\* what can go wrong while a request is handled: the body is JSON null (the
\* first data.get raises AttributeError), a field of the body has a type the
\* handler cannot use, the generation call raises, a search call raises, or
\* json.loads raises JSONDecodeError on the model's text
Faults == {"none", "null_body", "bad_field", "generation", "search", "parse"}

\* where the statement that raises stands in the handler: inside the
\* handler's try block, outside any try block, at a call site with a try of
\* its own (the exception never leaves it), or nowhere (the handler has no
\* such statement)
raise_site(r, f) ==
    IF f = "none" THEN "nowhere"
    ELSE IF r = "assist"
         THEN (IF f = "search" THEN "call_site" ELSE "inside_try")
    ELSE IF r = "clarify"
         THEN (IF f \in {"null_body", "bad_field"} THEN "inside_try" ELSE "call_site")
    ELSE IF r = "plan"
         THEN (IF f \in {"null_body", "bad_field"} THEN "outside_try"
               ELSE IF f = "search" THEN "call_site" ELSE "inside_try")
    ELSE IF r = "options"
         THEN (IF f \in {"null_body", "bad_field", "search"} THEN "inside_try"
               ELSE "nowhere")
    ELSE IF r = "itinerary"
         THEN (IF f = "search" THEN "nowhere" ELSE "inside_try")
    ELSE IF r = "wizard_movies"
         THEN (IF f \in {"null_body", "bad_field"} THEN "inside_try" ELSE "call_site")
    ELSE IF r = "wizard_itinerary"
         THEN (IF f \in {"null_body", "bad_field"} THEN "inside_try"
               ELSE IF f = "search" THEN "call_site" ELSE "nowhere")
    ELSE IF r = "preferences_post"
         THEN (IF f \in {"null_body", "bad_field"} THEN "outside_try" ELSE "nowhere")
    ELSE "nowhere"

\* the response of a handler whose statements raised nothing that left a
\* call site; save_prefs answers 400 when no user id can be derived
route_return(r, given) ==
    IF r = "preferences_post" /\ ~given
    THEN [status |-> 400, body |-> "status_error"]
    ELSE [status |-> 200, body |-> "result"]

Unhandled == [status |-> 500, body |-> "unhandled"]

\* what the client receives once an exception has left the handler's
\* statements: the body and status of the except branch that catches it, or
\* the framework's answer to an exception no branch catches
route_except(r, f) ==
    IF raise_site(r, f) = "outside_try" THEN Unhandled
    ELSE IF r \in {"assist", "plan"}
         THEN (IF f = "parse"
               THEN [status |-> 200, body |-> "fallback"]
               ELSE [status |-> 500, body |-> "error"])
    ELSE IF r = "clarify" THEN [status |-> 500, body |-> "error"]
    ELSE IF r = "itinerary" THEN [status |-> 200, body |-> "error"]
    ELSE IF r = "wizard_itinerary" /\ f = "null_body" THEN Unhandled
    ELSE [status |-> 200, body |-> "fallback"]

InitRoutes ==
    /\ pc = "route_start"
    /\ route \in Routes
    /\ fault \in Faults
    /\ user_id_given \in (IF route \in {"preferences_get", "preferences_post"}
                          THEN BOOLEAN ELSE {TRUE})
    /\ raised = FALSE
    /\ route_response = [status |-> 0, body |-> "none"]
    /\ IdleClarify /\ IdleIntent /\ IdleChain /\ IdleLocation /\ IdleAssist
    /\ IdleLater

\* data = request.json and the first data.get
RouteReadBody ==
    /\ pc = "route_start"
    /\ IF fault = "null_body" /\ raise_site(route, fault) \in {"inside_try", "outside_try"}
       THEN raised' = TRUE /\ pc' = "route_raised"
       ELSE raised' = FALSE /\ pc' = "route_handling"
    /\ UNCHANGED <<route, fault, user_id_given, route_response>>
    /\ UNCHANGED <<clarifyVars, intentVars, chainVars, locationVars, assistVars,
                   laterVars>>

\* the rest of the handler's statements, up to its return
RouteHandle ==
    /\ pc = "route_handling"
    /\ IF raise_site(route, fault) \in {"inside_try", "outside_try"}
       THEN /\ raised' = TRUE
            /\ pc' = "route_raised"
            /\ UNCHANGED route_response
       ELSE /\ route_response' = route_return(route, user_id_given)
            /\ pc' = "route_done"
            /\ UNCHANGED raised
    /\ UNCHANGED <<route, fault, user_id_given>>
    /\ UNCHANGED <<clarifyVars, intentVars, chainVars, locationVars, assistVars,
                   laterVars>>

\* the except branch, or the framework when there is none
RouteExcept ==
    /\ pc = "route_raised"
    /\ route_response' = route_except(route, fault)
    /\ pc' = "route_done"
    /\ UNCHANGED <<route, fault, user_id_given, raised>>
    /\ UNCHANGED <<clarifyVars, intentVars, chainVars, locationVars, assistVars,
                   laterVars>>

NextRoutes ==
    \/ RouteReadBody
    \/ RouteHandle
    \/ RouteExcept

SpecRoutes == InitRoutes /\ [][NextRoutes]_vars

----------------------------------------------------------------------------
(* Properties of the route boundary, under SpecRoutes *)

\* C18: for every route, an exception raised while handling a request is
\* caught at the route boundary and surfaced as a JSON error body with an
\* HTTP error status, never with a success status and never unhandled
C18_ExceptionGivesJsonErrorStatus ==
    (pc = "route_done" /\ raised)
        => (route_response.body = "error" /\ route_response.status >= 400)

----------------------------------------------------------------------------
(* Further properties of /api/assist, under SpecAssist *)

ChainBuilt == pc \in {"assist_search", "assist_compose", "assist_generate",
                      "assist_parse"}

AnticipatedFoodItems ==
    {i \in 1..Len(chain) : chain[i].type = "food" /\ chain[i].priority = "anticipated"}

\* C27: the food_need reported in the prompt is the meal need the chain's
\* food item was built from: the chain holds an anticipated food item exactly
\* when food_need is not None, and the item's subtype and position agree with
\* that label, with or without local_hour in the context
C27_FoodNeedMatchesChain ==
    ChainBuilt =>
      /\ (AnticipatedFoodItems # {}) <=> (food_need # None)
      /\ \A i \in AnticipatedFoodItems :
            food_need # None =>
              /\ chain[i].subtype = MealType(food_need[1])
              /\ chain[i].position = FoodPosition(food_need[1])

\* C28: with the search collaborator available every chain item has its own
\* entry in the search results passed to the prompt: there are as many
\* entries as chain items, also when two items have the same type
C28_OneEntryPerChainItem ==
    (tavily /\ prompt # None)
        => Cardinality(DOMAIN prompt[1].search_results) = Len(prompt[1].chain)

----------------------------------------------------------------------------
(* The clarification walk: a client that starts with no answers and answers
   every question it is asked *)

\* turns after which the model stops following a walk
MaxTurns == 6

\* a value the question does not declare
UndeclaredAnswer == "something else"

OptionsOf(q) == {q.options[k] : k \in 1..Len(q.options)}

InitWalk ==
    /\ pc = "walk_ask"
    /\ intent \in ClarifyIntents
    /\ answers = EmptyDict
    /\ answersNull = FALSE
    /\ contextNull = FALSE
    /\ next_question = None
    /\ response = NoResponse
    /\ planEntered = FALSE
    /\ genCalled = FALSE
    /\ asked = <<>>
    /\ IdleIntent /\ IdleChain /\ IdleLocation /\ IdleAssist /\ IdleRoutes
    /\ IdleOptions /\ IdleRest

\* get_next_question(intent, answers)
WalkAsk ==
    /\ pc = "walk_ask"
    /\ Len(asked) < MaxTurns
    /\ LET q == get_next_question(intent, answers)
       IN /\ next_question' = q
          /\ asked' = IF q # None THEN Append(asked, q[1].id) ELSE asked
          /\ pc' = IF q # None THEN "walk_answer" ELSE "walk_done"
    /\ UNCHANGED <<intent, answers, answersNull, contextNull, response, planEntered,
                   genCalled>>
    /\ UNCHANGED <<intentVars, chainVars, locationVars, assistVars, routeVars,
                   optionsVars, restVars>>

\* the client stores a value under the id of the question it was asked
WalkAnswer ==
    /\ pc = "walk_answer"
    /\ \E v \in OptionsOf(next_question[1]) \cup {UndeclaredAnswer} :
         answers' = DictSet(answers, next_question[1].id, v)
    /\ pc' = "walk_ask"
    /\ UNCHANGED <<intent, answersNull, contextNull, next_question, response,
                   planEntered, genCalled, asked>>
    /\ UNCHANGED <<intentVars, chainVars, locationVars, assistVars, routeVars,
                   optionsVars, restVars>>

NextWalk == WalkAsk \/ WalkAnswer

\* each party answers the other: a step that can be taken is taken
SpecWalk == InitWalk /\ [][NextWalk]_vars /\ WF_vars(NextWalk)

\* C25: starting from no answers and answering each question returned, with
\* any value, get_next_question returns None after at most as many turns as
\* the intent has questions, and no question is asked twice
C25_WalkTerminates ==
    /\ [](/\ Len(asked) <= Len(QuestionsOf(intent))
          /\ \A i, j \in 1..Len(asked) : asked[i] = asked[j] => i = j)
    /\ <>(pc = "walk_done" /\ next_question = None)

C25_Witness ==
    /\ pc = "walk_done"
    /\ intent = "movie"
    /\ asked = <<"food_timing", "movie_pref">>
    /\ answers["food_timing"] = UndeclaredAnswer
    /\ next_question = None

----------------------------------------------------------------------------
(* The progress pair of /api/clarify, under SpecClarify *)

\* C26: in every clarification response, for any answers map the client
\* supplies, answered <= total, and answered < total while a question is
\* still being asked
C26_ProgressWithinTotal ==
    (pc = "responded" /\ response.type = "clarification")
        => /\ response.progress.answered <= response.progress.total
           /\ response.progress.answered < response.progress.total

----------------------------------------------------------------------------
(* /api/options: the handler get_options() *)

OptionCategories == {"movie", "food", "activity", "shopping", "none"}

\* get_tmdb_now_playing: [] without an API key, on another status than 200
\* and when the request raised
TmdbOutcomes == {"hits", "empty", "no_key", "status_error", "raise"}

get_tmdb_now_playing(outcome) ==
    IF outcome = "hits" THEN <<"tmdb movie">> ELSE <<>>

ScrapeOutcomes == {"hits", "empty"}

OptionSearchOutcomes == {"hits", "empty", "raise"}

\* get_now_playing_movies: the scraped list when it is not empty, else the
\* search results, [] without a search client or when the search raised
get_now_playing_movies(scraped, has_tavily, searched) ==
    IF scraped = "hits" THEN <<"scraped movie">>
    ELSE IF ~has_tavily THEN <<>>
    ELSE IF searched = "hits" THEN <<"searched movie">>
    ELSE <<>>

\* the options built from tavily.search(...).get('results', [])
search_options(kind, searched) ==
    IF searched = "hits" THEN <<kind \o " result">> ELSE <<>>

\* the canned options of the `if not results:` block
mock_options(kind) ==
    IF kind = "movie" THEN <<"mock1", "mock2", "mock3">>
    ELSE IF kind = "food" THEN <<"mock_f1", "mock_f2", "mock_f3">>
    ELSE IF kind = "activity" THEN <<"mock_a1", "mock_a2">>
    ELSE <<>>

\* the body of the except branch: {"options": []}
OptionsExcept == [status |-> 200, keys |-> {"options"}, options |-> <<>>]

InitOptions ==
    /\ pc = "options_start"
    /\ body \in AssistBodies
    /\ category \in (IF body = "null" THEN {"none"} ELSE OptionCategories)
    /\ null_fields \in (IF body = "null" THEN {{}} ELSE SUBSET {"context", "preferences"})
    /\ tavily \in BOOLEAN
    /\ option_results = <<>>
    /\ options_response = [status |-> 0, keys |-> {}, options |-> <<>>]
    /\ IdleAssistLocals
    /\ IdleClarify /\ IdleIntent /\ IdleChain /\ IdleLocation /\ IdleRoutes /\ IdleWalk
    /\ IdleRest

\* lines 362-370: request.json, the fields, resolve_location, results = [];
\* data.get on a null body and .get on a null context raise AttributeError
OptionsStart ==
    /\ pc = "options_start"
    /\ IF body = "null" \/ "context" \in null_fields
       THEN /\ options_response' = OptionsExcept
            /\ pc' = "options_done"
       ELSE /\ pc' = IF category = "movie" THEN "options_tmdb"
                     ELSE IF category \in {"food", "activity"} THEN "options_search"
                     ELSE "options_return"
            /\ UNCHANGED options_response
    /\ UNCHANGED <<category, null_fields, option_results>>
    /\ UNCHANGED <<clarifyVars, intentVars, chainVars, locationVars, assistVars,
                   routeVars, walkVars, restVars>>

\* lines 372-374: results = get_tmdb_now_playing()
OptionsTmdb ==
    /\ pc = "options_tmdb"
    /\ \E outcome \in TmdbOutcomes :
         /\ option_results' = get_tmdb_now_playing(outcome)
         /\ pc' = IF get_tmdb_now_playing(outcome) = <<>>
                  THEN "options_now_playing" ELSE "options_return"
    /\ UNCHANGED <<category, null_fields, options_response>>
    /\ UNCHANGED <<clarifyVars, intentVars, chainVars, locationVars, assistVars,
                   routeVars, walkVars, restVars>>

\* lines 377-387: the options made of get_now_playing_movies(city)
OptionsNowPlaying ==
    /\ pc = "options_now_playing"
    /\ \E scraped \in ScrapeOutcomes, searched \in OptionSearchOutcomes :
         option_results' = get_now_playing_movies(scraped, tavily, searched)
    /\ pc' = "options_return"
    /\ UNCHANGED <<category, null_fields, options_response>>
    /\ UNCHANGED <<clarifyVars, intentVars, chainVars, locationVars, assistVars,
                   routeVars, walkVars, restVars>>

\* lines 389-417: the search of the food and activity branches, which is
\* not in a try of its own: when it raises, the except branch answers; the
\* food branch first reads preferences.get('food_type', ...)
OptionsSearch ==
    /\ pc = "options_search"
    /\ IF category = "food" /\ "preferences" \in null_fields
       THEN /\ options_response' = OptionsExcept
            /\ pc' = "options_done"
            /\ UNCHANGED option_results
       ELSE IF tavily
       THEN \E searched \in OptionSearchOutcomes :
              IF searched = "raise"
              THEN /\ options_response' = OptionsExcept
                   /\ pc' = "options_done"
                   /\ UNCHANGED option_results
              ELSE /\ option_results' = search_options(category, searched)
                   /\ pc' = "options_return"
                   /\ UNCHANGED options_response
       ELSE /\ pc' = "options_return"
            /\ UNCHANGED <<option_results, options_response>>
    /\ UNCHANGED <<category, null_fields>>
    /\ UNCHANGED <<clarifyVars, intentVars, chainVars, locationVars, assistVars,
                   routeVars, walkVars, restVars>>

\* lines 419-443: the mock options when results is empty, and the return
OptionsReturn ==
    /\ pc = "options_return"
    /\ LET final == IF option_results = <<>> THEN mock_options(category)
                    ELSE option_results
       IN /\ option_results' = final
          /\ options_response' =
                [status |-> 200, keys |-> {"category", "options"}, options |-> final]
    /\ pc' = "options_done"
    /\ UNCHANGED <<category, null_fields>>
    /\ UNCHANGED <<clarifyVars, intentVars, chainVars, locationVars, assistVars,
                   routeVars, walkVars, restVars>>

NextOptions ==
    \/ OptionsStart
    \/ OptionsTmdb
    \/ OptionsNowPlaying
    \/ OptionsSearch
    \/ OptionsReturn

SpecOptions == InitOptions /\ [][NextOptions]_vars

\* C21: for the categories movie, food and activity the options list
\* returned to a well-formed request is never empty: when the collaborators
\* yield nothing (unavailable, empty result, failing call) the category's
\* mock options are substituted
C21_OptionsNeverEmpty ==
    (/\ pc = "options_done"
     /\ body = "object" /\ null_fields = {}
     /\ category \in {"movie", "food", "activity"})
        => options_response.options # <<>>

----------------------------------------------------------------------------
(* USER PREFERENCES: the store and the requests that read or write it *)

\* hashlib.md5(fingerprint.encode()).hexdigest()[:12], None ("" here, both
\* falsy) without a fingerprint; digests of different fingerprints are taken
\* to differ
get_user_id(fingerprint) ==
    IF fingerprint # "" THEN "md5:" \o fingerprint ELSE ""

\* USER_PREFERENCES.get(user_id, {})
get_user_preferences(store, user_id) ==
    IF user_id \in DOMAIN store THEN store[user_id] ELSE EmptyDict

\* {**old, **prefs}
dict_merge(old, prefs) ==
    [k \in (DOMAIN old) \cup (DOMAIN prefs) |->
        IF k \in DOMAIN prefs THEN prefs[k] ELSE old[k]]

save_user_preferences_replacing(store, user_id, prefs) ==
    IF user_id # ""
    THEN [store |-> DictSet(store, user_id, prefs), saved |-> TRUE]
    ELSE [store |-> store, saved |-> FALSE]

\* save_user_preferences: the store after the call and the value returned
save_user_preferences(store, user_id, prefs) ==
    IF user_id # ""
    THEN [store |-> DictSet(store, user_id,
                            dict_merge(get_user_preferences(store, user_id), prefs)),
          saved |-> TRUE]
    ELSE [store |-> store, saved |-> FALSE]

PrefValues == [food_pref |-> {"vegetarian"}, budget |-> {"budget", "premium"}]

\* every preferences object over the keys of PrefValues
PrefMaps ==
    UNION {{f \in [S -> {"vegetarian", "budget", "premium"}] :
               \A k \in S : f[k] \in PrefValues[k]} : S \in SUBSET DOMAIN PrefValues}

ExplicitUserIds == {"", "alice"}

Fingerprints == {"", "fp1"}

QueriedUserIds == {"", "alice", "bob", get_user_id("fp1")}

InitPrefs ==
    /\ pc = "serving"
    /\ USER_PREFERENCES = EmptyDict
    /\ IdlePrefs
    /\ IdleThreads /\ IdleWizard
    /\ IdleClarify /\ IdleIntent /\ IdleChain /\ IdleLocation /\ IdleAssist
    /\ IdleRoutes /\ IdleWalk /\ IdleOptions

\* POST /api/preferences, save_prefs()
SavePrefs ==
    /\ \E uid \in ExplicitUserIds, fp \in Fingerprints, prefs \in PrefMaps :
         LET user_id == IF uid # "" THEN uid ELSE get_user_id(fp)
             r == save_user_preferences(USER_PREFERENCES, user_id, prefs)
         IN /\ USER_PREFERENCES' = r.store
            /\ prefs_request' = [op |-> "save", user_id |-> uid, fingerprint |-> fp,
                                 preferences |-> prefs]
            /\ prefs_response' =
                  IF r.saved
                  THEN [status |-> 200, user_id |-> user_id, record |-> EmptyDict]
                  ELSE [status |-> 400, user_id |-> "", record |-> EmptyDict]
            /\ last_save' =
                  IF r.saved
                  THEN Some([fingerprint |-> fp, user_id |-> user_id,
                             preferences |-> prefs])
                  ELSE last_save
    /\ UNCHANGED <<pc, clarifyVars, intentVars, chainVars, locationVars, assistVars,
                   routeVars, walkVars, optionsVars, threadVars, wizardVars>>

\* GET /api/preferences, get_prefs()
GetPrefs ==
    /\ \E uid \in QueriedUserIds :
         /\ prefs_request' = [op |-> "get", user_id |-> uid, fingerprint |-> "",
                              preferences |-> EmptyDict]
         /\ prefs_response' =
               [status |-> 200, user_id |-> uid,
                record |-> IF uid # "" THEN get_user_preferences(USER_PREFERENCES, uid)
                           ELSE EmptyDict]
    /\ UNCHANGED <<USER_PREFERENCES, last_save>>
    /\ UNCHANGED <<pc, clarifyVars, intentVars, chainVars, locationVars, assistVars,
                   routeVars, walkVars, optionsVars, threadVars, wizardVars>>

\* lines 1429-1430 of assist(): the preferences a request is served with
AssistPrefs ==
    /\ \E fp \in Fingerprints :
         LET user_id == get_user_id(fp)
         IN /\ prefs_request' = [op |-> "assist", user_id |-> "", fingerprint |-> fp,
                                 preferences |-> EmptyDict]
            /\ prefs_response' =
                  [status |-> 200, user_id |-> user_id,
                   record |-> IF user_id # ""
                              THEN get_user_preferences(USER_PREFERENCES, user_id)
                              ELSE EmptyDict]
    /\ UNCHANGED <<USER_PREFERENCES, last_save>>
    /\ UNCHANGED <<pc, clarifyVars, intentVars, chainVars, locationVars, assistVars,
                   routeVars, walkVars, optionsVars, threadVars, wizardVars>>

\* clarify() and the plan builders it calls never name USER_PREFERENCES
ClarifyPrefs ==
    /\ prefs_request' = [op |-> "clarify", user_id |-> "", fingerprint |-> "",
                         preferences |-> EmptyDict]
    /\ prefs_response' = [status |-> 200, user_id |-> "", record |-> EmptyDict]
    /\ UNCHANGED <<USER_PREFERENCES, last_save>>
    /\ UNCHANGED <<pc, clarifyVars, intentVars, chainVars, locationVars, assistVars,
                   routeVars, walkVars, optionsVars, threadVars, wizardVars>>

NextPrefs ==
    \/ SavePrefs
    \/ GetPrefs
    \/ AssistPrefs
    \/ ClarifyPrefs

SpecPrefs == InitPrefs /\ [][NextPrefs]_vars

----------------------------------------------------------------------------
(* Properties of the preference store, under SpecPrefs *)

StoredRecord(user_id) ==
    IF user_id \in DOMAIN USER_PREFERENCES THEN USER_PREFERENCES[user_id] ELSE EmptyDict

\* C22: the store changes only through a save: a save with a non-empty id
\* leaves the record of that id equal to the previous record overridden key
\* by key by prefs (absent keys keep their values) and every other record
\* unchanged; /api/assist, /api/clarify and GET /api/preferences never
\* change the store
C22_StoreChangesOnlyBySave ==
    [][IF prefs_request'.op = "save" /\ prefs_response'.status = 200
       THEN LET id == prefs_response'.user_id
                given == prefs_request'.preferences
            IN /\ id # ""
               /\ DOMAIN USER_PREFERENCES' = (DOMAIN USER_PREFERENCES) \cup {id}
               /\ DOMAIN USER_PREFERENCES'[id] =
                     (DOMAIN StoredRecord(id)) \cup (DOMAIN given)
               /\ \A k \in DOMAIN given : USER_PREFERENCES'[id][k] = given[k]
               /\ \A k \in (DOMAIN StoredRecord(id)) \ (DOMAIN given) :
                     USER_PREFERENCES'[id][k] = StoredRecord(id)[k]
               /\ \A u \in (DOMAIN USER_PREFERENCES) \ {id} :
                     USER_PREFERENCES'[u] = USER_PREFERENCES[u]
       ELSE USER_PREFERENCES' = USER_PREFERENCES]_vars

C22_Witness ==
    /\ prefs_request.op = "save"
    /\ prefs_response.status = 200
    /\ prefs_response.user_id = "alice"
    /\ prefs_request.preferences = [budget |-> "premium"]
    /\ USER_PREFERENCES["alice"] = [food_pref |-> "vegetarian", budget |-> "premium"]
    /\ get_user_id("fp1") \in DOMAIN USER_PREFERENCES

\* C30: after a successful save from a request carrying a fingerprint, with
\* or without an explicit user_id, GET /api/preferences with the returned
\* user_id returns a record containing the saved values, and /api/assist for
\* a request with the same fingerprint uses that same record
C30_SavedPreferencesAreUsed ==
    (last_save # None /\ last_save[1].fingerprint # "") =>
      /\ (prefs_request.op = "get" /\ prefs_request.user_id = last_save[1].user_id)
            => \A k \in DOMAIN last_save[1].preferences :
                  /\ k \in DOMAIN prefs_response.record
                  /\ prefs_response.record[k] = last_save[1].preferences[k]
      /\ (prefs_request.op = "assist"
            /\ prefs_request.fingerprint = last_save[1].fingerprint)
            => prefs_response.record = StoredRecord(last_save[1].user_id)

----------------------------------------------------------------------------
(* Two requests saving preferences at once: app.run serves each request in a
   thread of its own, and line 1189 reads the record, builds the merged dict
   and stores it, with no lock held *)

Threads == {"t1", "t2"}

ThreadUserIds == {"alice", "bob"}

InitialStores == {EmptyDict, [alice |-> [budget |-> "budget"]]}

InitThreads ==
    /\ pc = "threads"
    /\ USER_PREFERENCES \in InitialStores
    /\ thread_args \in [Threads -> [user_id : ThreadUserIds, prefs : PrefMaps]]
    /\ thread_pc = [t \in Threads |-> "read"]
    /\ thread_snapshot = [t \in Threads |-> EmptyDict]
    /\ IdlePrefs /\ IdleWizard
    /\ IdleClarify /\ IdleIntent /\ IdleChain /\ IdleLocation /\ IdleAssist
    /\ IdleRoutes /\ IdleWalk /\ IdleOptions

\* USER_PREFERENCES.get(user_id, {})
ThreadRead(t) ==
    /\ thread_pc[t] = "read"
    /\ thread_snapshot' =
          [thread_snapshot EXCEPT ![t] =
              get_user_preferences(USER_PREFERENCES, thread_args[t].user_id)]
    /\ thread_pc' = [thread_pc EXCEPT ![t] = "write"]
    /\ UNCHANGED <<USER_PREFERENCES, thread_args>>
    /\ UNCHANGED <<pc, clarifyVars, intentVars, chainVars, locationVars, assistVars,
                   routeVars, walkVars, optionsVars, wizardVars>>
    /\ UNCHANGED <<prefs_request, prefs_response, last_save>>

\* USER_PREFERENCES[user_id] = {**<the record read>, **prefs}
ThreadWrite(t) ==
    /\ thread_pc[t] = "write"
    /\ USER_PREFERENCES' =
          DictSet(USER_PREFERENCES, thread_args[t].user_id,
                  dict_merge(thread_snapshot[t], thread_args[t].prefs))
    /\ thread_pc' = [thread_pc EXCEPT ![t] = "done"]
    /\ UNCHANGED <<thread_args, thread_snapshot>>
    /\ UNCHANGED <<pc, clarifyVars, intentVars, chainVars, locationVars, assistVars,
                   routeVars, walkVars, optionsVars, wizardVars>>
    /\ UNCHANGED <<prefs_request, prefs_response, last_save>>

NextThreads ==
    \/ \E t \in Threads : ThreadRead(t)
    \/ \E t \in Threads : ThreadWrite(t)

SpecThreads == InitThreads /\ [][NextThreads]_vars

\* C23: when two save_user_preferences calls for the same user id with
\* disjoint preference keys are interleaved in any way, the final record
\* holds the keys of both calls
C23_NoLostUpdate ==
    (/\ pc = "threads"
     /\ \A t \in Threads : thread_pc[t] = "done"
     /\ \A t \in Threads : thread_args[t].prefs # EmptyDict
     /\ thread_args["t1"].user_id = thread_args["t2"].user_id
     /\ (DOMAIN thread_args["t1"].prefs) \cap (DOMAIN thread_args["t2"].prefs) = {})
        => \A t \in Threads :
              DOMAIN thread_args[t].prefs
                 \subseteq DOMAIN USER_PREFERENCES[thread_args[t].user_id]

----------------------------------------------------------------------------
(* /api/wizard/itinerary: the times of the steps and the total duration *)

\* the showtime text by its hour and its AM/PM mark; "24h" is a text with
\* no mark, "bad" a text whose hour does not parse
Showtimes ==
    {[hour |-> h, period |-> p] : h \in 1..12, p \in {"AM", "PM"}}
    \cup {[hour |-> h, period |-> "24h"] : h \in {0, 13, 19, 23}}
    \cup {[hour |-> 0, period |-> "bad"]}

\* lines 596-601: int(showtime.split(':')[0]), 12 added for PM except at
\* 12, and 19 when the text does not parse
parse_show_hour(st) ==
    IF st.period = "bad" THEN 19
    ELSE IF st.period = "PM" /\ st.hour # 12 THEN st.hour + 12
    ELSE st.hour

\* lines 603-613: start_hour and start_minute
start_time(show_hour, now) ==
    IF show_hour <= now.hour
    THEN LET start_minute == ((now.minute \div 15) + 1) * 15
         IN IF start_minute >= 60
            THEN [hour |-> now.hour + 1, minute |-> 0]
            ELSE [hour |-> now.hour, minute |-> start_minute]
    ELSE [hour |-> show_hour - 1, minute |-> 0]

\* format_time(h, m), kept as the fields of the text "{hour_12}:{m:02d} {period}"
format_time(h, m) ==
    LET hour_12 == IF h <= 12 THEN h ELSE h - 12
    IN [hour |-> IF hour_12 = 0 THEN 12 ELSE hour_12,
        minute |-> m,
        period |-> IF h >= 12 THEN "PM" ELSE "AM"]

\* format_time(current_time_mins // 60, current_time_mins % 60), with the
\* time it renders
RenderedStep(name, mins) ==
    [step |-> name, at |-> mins, text |-> format_time(mins \div 60, mins % 60)]

\* lines 622-732: the computed steps in order and total_mins; the movie step
\* shows the client's showtime text and is not computed
wizard_plan(st, now, food, travel) ==
    LET show_hour == parse_show_hour(st)
        start == start_time(show_hour, now)
        leave == start.hour * 60 + start.minute
        parking == leave + 25
        before == IF travel = "car" THEN parking + 10 ELSE parking
        after == show_hour * 60 + 150
        home == IF food = "after" THEN after + 45 ELSE after
    IN [steps |-> <<RenderedStep("leave", leave)>>
                  \o (IF travel = "car" THEN <<RenderedStep("parking", parking)>> ELSE <<>>)
                  \o (IF food = "before" THEN <<RenderedStep("food", before)>> ELSE <<>>)
                  \o (IF food = "after" THEN <<RenderedStep("food", after)>> ELSE <<>>)
                  \o <<RenderedStep("home", home)>>,
        total_mins |-> home - leave]

WizardMinutes == {0, 20, 50}

InitWizard ==
    /\ pc = "wizard_start"
    /\ showtime \in Showtimes
    /\ wizard_now \in [hour : 0..23, minute : WizardMinutes]
    /\ wizard_food \in {"before", "after", "skip"}
    /\ wizard_travel \in {"car", "metro"}
    /\ wizard_steps = <<>>
    /\ total_mins = None
    /\ USER_PREFERENCES = EmptyDict /\ IdlePrefs /\ IdleThreads
    /\ IdleClarify /\ IdleIntent /\ IdleChain /\ IdleLocation /\ IdleAssist
    /\ IdleRoutes /\ IdleWalk /\ IdleOptions

WizardItinerary ==
    /\ pc = "wizard_start"
    /\ LET plan == wizard_plan(showtime, wizard_now, wizard_food, wizard_travel)
       IN /\ wizard_steps' = plan.steps
          /\ total_mins' = Some(plan.total_mins)
    /\ pc' = "wizard_done"
    /\ UNCHANGED <<showtime, wizard_now, wizard_food, wizard_travel>>
    /\ UNCHANGED <<clarifyVars, intentVars, chainVars, locationVars, assistVars,
                   routeVars, walkVars, optionsVars, prefsVars, threadVars>>

NextWizard == WizardItinerary

SpecWizard == InitWizard /\ [][NextWizard]_vars

\* C29: for every showtime hour and every current time, each computed step
\* time is a valid 12-hour clock time (hour in 1..12, minute in 0..59, AM for
\* hours before noon and PM otherwise), and the total duration is not negative
C29_ValidClockTimes ==
    pc = "wizard_done" =>
      /\ \A i \in 1..Len(wizard_steps) :
            /\ wizard_steps[i].text.hour \in 1..12
            /\ wizard_steps[i].text.minute \in 0..59
            /\ wizard_steps[i].text.period =
                  (IF (wizard_steps[i].at \div 60) % 24 < 12 THEN "AM" ELSE "PM")
      /\ total_mins[1] >= 0

====
